---- MODULE Spec2Model ----
(***************************************************************************)
(* Emotional core of ai-town: per-agent emotional state with lazy decay,   *)
(* contagion, the atmosphere -> weather feedback and resonance chambers.   *)
(*                                                                         *)
(* Numbers.  The program computes in IEEE doubles.  The model computes in  *)
(* fixed point: every intensity-like quantity (the eight intensities,      *)
(* valence, arousal, dominance, mood score) is an integer count of         *)
(* thousandths (Unit), a multiplicative factor (decay rate, personality    *)
(* modifier, contagion strength) is an integer count of millionths or      *)
(* thousandths, and every product is rounded down once, where the program  *)
(* rounds to the nearest double.  The clock counts whole minutes.          *)
(***************************************************************************)
EXTENDS Integers, Sequences, FiniteSets, TLC

\* ---------------------------------------------------------------- bounds
MaxClock == 2
MaxOps == 2
MaxMinutes == 2
MaxWorldOps == 4
MaxChamberOps == 3
MaxWorldClock == 30
MaxCalls == 3
MaxHistoryOps == 7
MaxHistoryClock == 70
MaxConversations == 1
MaxTickClock == 30
MaxMemories == 2
MaxTriggered == 2
MaxTimesTriggered == 12
MaxInteractions == 3
MaxSeekTriggers == 1
MaxForecastOps == 4

\* ------------------------------------------------------------ fixed point
Unit == 10 * 100
RateOne == Unit * Unit

\* an await: the value is computed once, then the rest of the handler runs on it
Await(v, Rest(_)) == CHOOSE r \in {Rest(x) : x \in {v}} : TRUE

Max2(a, b) == IF a >= b THEN a ELSE b
Min2(a, b) == IF a <= b THEN a ELSE b
Abs(a) == IF a >= 0 THEN a ELSE 0 - a
Clamp(lo, hi, x) == Max2(lo, Min2(hi, x))

\* floor(v * r / RateOne) for 0 <= r <= 2 * RateOne, without leaving 32 bits
MulRate(v, r) == (v * (r \div Unit) + ((v * (r % Unit)) \div Unit)) \div Unit

\* floor(v * f / Unit)
MulUnit(v, f) == (v * f) \div Unit

\* floor(a * Unit / b) for b > 0, without leaving 32 bits
DivUnit(a, b) == (a \div b) * Unit + (((a % b) * Unit) \div b)

\* ------------------------------------------------------- program constants
EMOTION_DECAY_NUM == 19
EMOTION_DECAY_DEN == 20
\* floor(10^6 * sqrt(0.95)): Math.pow(0.95, 0.5)
EMOTION_DECAY_HALF == 974679
CONTAGION_BASE_STRENGTH == 300
SPIKE_LOG_THRESHOLD == 40
CONTAGION_LOG_THRESHOLD == 5
DEFAULT_BOND_STRENGTH == 10

Emotions == {"joy", "sadness", "trust", "disgust", "fear", "anger", "surprise", "anticipation"}
\* the order in which the program enumerates the eight channels
EmotionOrder == <<"joy", "sadness", "trust", "disgust", "fear", "anger", "surprise", "anticipation">>

\* coefficients in hundredths
EMOTION_VALENCE ==
  [joy |-> 100, trust |-> 70, anticipation |-> 50, surprise |-> 0,
   sadness |-> -80, disgust |-> -60, fear |-> -70, anger |-> -50]

EMOTION_AROUSAL ==
  [joy |-> 80, anger |-> 90, fear |-> 90, surprise |-> 95,
   anticipation |-> 70, disgust |-> 60, trust |-> 40, sadness |-> 30]

\* a list whose last two prototypes require emotions as the others do
MOOD_CATEGORIES_ALL_REQUIRING ==
  << [name |-> "euphoric",    req |-> {<<"joy", 70>>},                         vr |-> <<60, 100>>,    ar |-> <<60, 100>>],
     [name |-> "content",     req |-> {<<"joy", 40>>, <<"trust", 30>>},        vr |-> <<30, 100>>,    ar |-> <<0, 50>>],
     [name |-> "excited",     req |-> {<<"anticipation", 50>>},                vr |-> <<20, 100>>,    ar |-> <<60, 100>>],
     [name |-> "anxious",     req |-> {<<"fear", 50>>, <<"anticipation", 30>>}, vr |-> <<-100, 0>>,   ar |-> <<50, 100>>],
     [name |-> "melancholic", req |-> {<<"sadness", 60>>},                     vr |-> <<-100, -40>>,  ar |-> <<0, 40>>],
     [name |-> "angry",       req |-> {<<"anger", 50>>},                       vr |-> <<-100, -20>>,  ar |-> <<60, 100>>],
     [name |-> "suspicious",  req |-> {<<"disgust", 40>>, <<"fear", 30>>},     vr |-> <<-100, -20>>,  ar |-> <<30, 70>>],
     [name |-> "surprised",   req |-> {<<"surprise", 60>>},                    vr |-> <<-50, 50>>,    ar |-> <<70, 100>>],
     [name |-> "calm",        req |-> {<<"trust", 60>>},                       vr |-> <<-20, 20>>,    ar |-> <<0, 30>>],
     [name |-> "neutral",     req |-> {<<"trust", 60>>},                       vr |-> <<-30, 30>>,    ar |-> <<20, 50>>] >>

\* requiredEmotions as a set of <<emotion, minimum>>; ranges in whole points
MOOD_CATEGORIES ==
  << [name |-> "euphoric",    req |-> {<<"joy", 70>>},                         vr |-> <<60, 100>>,    ar |-> <<60, 100>>],
     [name |-> "content",     req |-> {<<"joy", 40>>, <<"trust", 30>>},        vr |-> <<30, 100>>,    ar |-> <<0, 50>>],
     [name |-> "excited",     req |-> {<<"anticipation", 50>>},                vr |-> <<20, 100>>,    ar |-> <<60, 100>>],
     [name |-> "anxious",     req |-> {<<"fear", 50>>, <<"anticipation", 30>>}, vr |-> <<-100, 0>>,   ar |-> <<50, 100>>],
     [name |-> "melancholic", req |-> {<<"sadness", 60>>},                     vr |-> <<-100, -40>>,  ar |-> <<0, 40>>],
     [name |-> "angry",       req |-> {<<"anger", 50>>},                       vr |-> <<-100, -20>>,  ar |-> <<60, 100>>],
     [name |-> "suspicious",  req |-> {<<"disgust", 40>>, <<"fear", 30>>},     vr |-> <<-100, -20>>,  ar |-> <<30, 70>>],
     [name |-> "surprised",   req |-> {<<"surprise", 60>>},                    vr |-> <<-50, 50>>,    ar |-> <<70, 100>>],
     [name |-> "calm",        req |-> {},                                      vr |-> <<-20, 20>>,    ar |-> <<0, 30>>],
     [name |-> "neutral",     req |-> {},                                      vr |-> <<-30, 30>>,    ar |-> <<20, 50>>] >>

\* ------------------------------------------------------------ pure functions
SumOver(f) ==
  f["joy"] + f["sadness"] + f["trust"] + f["disgust"]
  + f["fear"] + f["anger"] + f["surprise"] + f["anticipation"]

\* shortfall of the required emotions of one category
RECURSIVE Shortfall(_, _)
Shortfall(em, req) ==
  IF req = {} THEN 0
  ELSE LET r == CHOOSE y \in req : TRUE
       IN (IF em[r[1]] < r[2] * Unit THEN r[2] * Unit - em[r[1]] ELSE 0)
          + Shortfall(em, req \ {r})

MoodScore(em, valence, arousal, cat) ==
  Max2(0,
       100 * Unit
       - Shortfall(em, cat.req)
       - (IF valence < cat.vr[1] * Unit \/ valence > cat.vr[2] * Unit THEN 30 * Unit ELSE 0)
       - (IF arousal < cat.ar[1] * Unit \/ arousal > cat.ar[2] * Unit THEN 20 * Unit ELSE 0))

\* a sort that puts the category declared last ahead of its equals
calculateMoodLastOfEquals(em, valence, arousal) ==
  LET score == [i \in 1..Len(MOOD_CATEGORIES) |->
                  MoodScore(em, valence, arousal, MOOD_CATEGORIES[i])]
      best == CHOOSE i \in 1..Len(MOOD_CATEGORIES) :
                /\ \A j \in 1..Len(MOOD_CATEGORIES) : score[j] <= score[i]
                /\ \A j \in (i + 1)..Len(MOOD_CATEGORIES) : score[j] < score[i]
  IN [mood |-> MOOD_CATEGORIES[best].name, intensity |-> score[best]]

\* the first category, in declaration order, whose score is maximal
calculateMood(em, valence, arousal) ==
  LET score == [i \in 1..Len(MOOD_CATEGORIES) |->
                  MoodScore(em, valence, arousal, MOOD_CATEGORIES[i])]
      best == CHOOSE i \in 1..Len(MOOD_CATEGORIES) :
                /\ \A j \in 1..Len(MOOD_CATEGORIES) : score[j] <= score[i]
                /\ \A j \in 1..(i - 1) : score[j] < score[i]
  IN [mood |-> MOOD_CATEGORIES[best].name, intensity |-> score[best]]

calculateEmotionalMetrics(em) ==
  LET vsum == SumOver([e \in Emotions |-> EMOTION_VALENCE[e] * em[e]])
      asum == SumOver([e \in Emotions |-> EMOTION_AROUSAL[e] * em[e]])
      total == SumOver(em)
      valence == IF total > 0 THEN DivUnit(vsum, total) ELSE vsum \div 100
      arousal == IF total > 0 THEN DivUnit(asum, total) ELSE asum \div 100
      dominance == 100 * Unit - ((em["fear"] + em["sadness"]) \div 2)
  IN [valence |-> Clamp(-100 * Unit, 100 * Unit, valence),
      arousal |-> Clamp(0, 100 * Unit, arousal),
      dominance |-> Clamp(0, 100 * Unit, dominance)]

\* Math.pow(0.95, h / 2) in millionths, h a count of half steps
RECURSIVE PowDecay(_)
PowDecay(h) ==
  IF h = 0 THEN RateOne
  ELSE IF h = 1 THEN EMOTION_DECAY_HALF
  ELSE (PowDecay(h - 2) * EMOTION_DECAY_NUM) \div EMOTION_DECAY_DEN

\* an exponent counted from one minute
DecayExponentPlusOne(minutes, regulation) == ((minutes + 1) * (200 + 2 * regulation)) \div 100

\* an exponent that grows with the square of the minutes
DecayExponentSquared(minutes, regulation) ==
  (minutes * minutes * (200 + 2 * regulation)) \div 100

\* minutesElapsed * (1 + emotionalRegulation / 100), in half steps
DecayExponent(minutes, regulation) == (minutes * (200 + 2 * regulation)) \div 100

decayEmotions(em, minutes, regulation) ==
  LET decayRate == PowDecay(DecayExponent(minutes, regulation))
  IN [e \in Emotions |-> MulRate(em[e], decayRate)]

\* relationshipBond in thousandths, proximity in thousandths, result in millionths
calculateContagionStrength(sourceEmpathy, targetEmpathy, relationshipBond, proximity) ==
  LET base == (CONTAGION_BASE_STRENGTH * Unit * (sourceEmpathy + targetEmpathy)) \div 200
      bonded == MulRate(base, RateOne + 10 * relationshipBond)
      strength == MulUnit(bonded, proximity)
  IN Min2(RateOne, strength)

\* a transfer that adds the source's share without taking the target's away
applyEmotionalContagionAdded(targetEmotions, sourceEmotions, contagionStrength) ==
  [e \in Emotions |->
     LET delta == MulRate(sourceEmotions[e], contagionStrength)
     IN Max2(0, Min2(100 * Unit, targetEmotions[e] + delta))]

applyEmotionalContagion(targetEmotions, sourceEmotions, contagionStrength) ==
  [e \in Emotions |->
     LET delta == MulRate(sourceEmotions[e] - targetEmotions[e], contagionStrength)
     IN Max2(0, Min2(100 * Unit, targetEmotions[e] + delta))]

\* floor(a * b / Unit) for 0 <= a <= 100 * Unit and 0 <= b <= 200 * Unit, within 32 bits
MulPoints(a, b) == (a \div Unit) * b + ((a % Unit) * b) \div Unit

\* the similarity in thousandths.  Both sums are kept doubled, (state1 + state2) in
\* place of the average, which leaves their quotient as it is; the quotient is
\* taken on both sums divided by 100, to stay within 32 bits
calculateEmotionalSimilarity(state1, state2) ==
  LET totalDifference ==
        SumOver([e \in Emotions |->
                   MulPoints(Abs(state1[e] - state2[e]), state1[e] + state2[e])])
      totalIntensity == SumOver([e \in Emotions |-> (state1[e] + state2[e]) * 100])
  IN IF totalIntensity = 0 THEN 0
     ELSE Max2(0, Min2(Unit, Unit - DivUnit(totalDifference \div 100,
                                            Max2(1, totalIntensity \div 100))))

\* the modifier in thousandths; every *= rounds once
getPersonalityEmotionModifier(emotion, personality) ==
  LET m0 == Unit
      m1 == IF emotion \in {"fear", "sadness", "anger"}
            THEN MulUnit(m0, 700 + 6 * personality.neuroticism) ELSE m0
      m2 == IF emotion \in {"joy", "trust"}
            THEN MulUnit(m1, 1300 - 6 * personality.neuroticism) ELSE m1
      m3 == IF emotion = "trust"
            THEN MulUnit(m2, 800 + 4 * personality.agreeableness) ELSE m2
      m4 == IF emotion \in {"disgust", "anger"}
            THEN MulUnit(m3, 1200 - 4 * personality.agreeableness) ELSE m3
      m5 == IF emotion \in {"joy", "anger", "surprise", "anticipation"}
            THEN MulUnit(m4, 900 + 3 * personality.extraversion) ELSE m4
      m6 == IF emotion \in {"surprise", "anticipation"}
            THEN MulUnit(m5, 900 + 2 * personality.openness) ELSE m5
      m7 == IF emotion \in {"surprise", "anger"}
            THEN MulUnit(m6, 1100 - 2 * personality.conscientiousness) ELSE m6
  IN Max2(500, Min2(1500, m7))

\* the emotionalState object written by a mutation or returned by the query
MakeState(em, now) ==
  LET metrics == calculateEmotionalMetrics(em)
      mood == calculateMood(em, metrics.valence, metrics.arousal)
  IN [emotions |-> em,
      valence |-> metrics.valence,
      arousal |-> metrics.arousal,
      dominance |-> metrics.dominance,
      currentMood |-> mood.mood,
      moodIntensity |-> mood.intensity,
      lastUpdated |-> now]

\* ------------------------------------------------------------------ agents
Agents == {"a1", "a2", "a3"}
\* world.players: a4 is a player whose agent never gets a profile
Players == Agents \cup {"a4"}
\* the order of world.agents and of the agentPsychology table
AgentOrder == <<"a1", "a2", "a3", "a4">>

\* personality presets, taken with zero variation except emotionalRegulation,
\* which is varied (within the +-10 varyPersonality allows) to 50, and a3's
\* agreeableness, varied from 60 to 50
PERSONALITY_PRESETS ==
  [a1 |-> [name |-> "curious_optimist",
           traits |-> [openness |-> 85, conscientiousness |-> 60, extraversion |-> 70,
                       agreeableness |-> 75, neuroticism |-> 35],
           emotionalBaseline |-> [joy |-> 60, trust |-> 55, anticipation |-> 50, surprise |-> 30,
                                  sadness |-> 15, fear |-> 20, anger |-> 10, disgust |-> 10],
           empathy |-> 70, emotionalRegulation |-> 50,
           needsProfile |-> [autonomy |-> 70, competence |-> 60, relatedness |-> 75,
                             stimulation |-> 85, security |-> 50]],
   a2 |-> [name |-> "melancholic_artist",
           traits |-> [openness |-> 90, conscientiousness |-> 50, extraversion |-> 35,
                       agreeableness |-> 65, neuroticism |-> 70],
           emotionalBaseline |-> [sadness |-> 50, trust |-> 45, anticipation |-> 35, joy |-> 30,
                                  fear |-> 35, disgust |-> 25, anger |-> 20, surprise |-> 30],
           empathy |-> 80, emotionalRegulation |-> 50,
           needsProfile |-> [autonomy |-> 75, competence |-> 70, relatedness |-> 60,
                             stimulation |-> 80, security |-> 50]],
   a3 |-> [name |-> "anxious_perfectionist",
           traits |-> [openness |-> 65, conscientiousness |-> 90, extraversion |-> 40,
                       agreeableness |-> 50, neuroticism |-> 75],
           emotionalBaseline |-> [fear |-> 45, anticipation |-> 55, sadness |-> 30, trust |-> 40,
                                  joy |-> 25, anger |-> 20, disgust |-> 25, surprise |-> 15],
           empathy |-> 65, emotionalRegulation |-> 50,
           needsProfile |-> [autonomy |-> 50, competence |-> 90, relatedness |-> 50,
                             stimulation |-> 40, security |-> 85]]]

Personality(a) == PERSONALITY_PRESETS[a].traits
Empathy(a) == PERSONALITY_PRESETS[a].empathy
Regulation(a) == PERSONALITY_PRESETS[a].emotionalRegulation

\* the profile row inserted for an agent at time now
NeedNames == {"autonomy", "competence", "relatedness", "stimulation", "security"}

\* psychologicalNeeds of a new profile
initializeNeeds(a, now) ==
  [values |-> PERSONALITY_PRESETS[a].needsProfile, lastUpdated |-> now]

NullNeeds == [values |-> [n \in NeedNames |-> 0], lastUpdated |-> 0]
NoSideEffects == [social |-> 0, narrative |-> 0]

\* vary(value) on the eight baseline emotions: delta[e] is the channel's
\* (Math.random() - 0.5) * 2 * variation, in thousandths
NoVariation == [e \in Emotions |-> 0]
varyPersonality(a, delta) ==
  [e \in Emotions |->
     Clamp(0, 100 * Unit, PERSONALITY_PRESETS[a].emotionalBaseline[e] * Unit + delta[e])]

\* the profile row inserted for the varied baseline em
ProfileOf(em, now) ==
  [emotionalState |->
        [emotions |-> em,
         valence |-> ((em["joy"] + em["trust"] - em["sadness"] - em["fear"]) * 100) \div 400,
         arousal |-> ((em["joy"] + em["anger"] + em["surprise"] + em["anticipation"]) * 100) \div 400,
         dominance |-> 100 * Unit - ((em["fear"] + em["sadness"]) \div 2),
         currentMood |-> "neutral",
         moodIntensity |-> 50 * Unit,
         lastUpdated |-> now],
      updatedAt |-> now]

initializeAgentPsychology(a, now) == ProfileOf(varyPersonality(a, NoVariation), now)

\* ------------------------------------------------------------------- state
VARIABLES
  clock,      \* Date.now(), in minutes
  psych,      \* agentPsychology: agent -> profile row, for the agents that have one
  bonds,      \* emotionalBonds: set of rows
  calls,      \* per caller, the triggerEmotion / processContagion it has in flight
  events,     \* row counts of emotionalEvents and emotionalContagionEvents
  lastRead,   \* what the last getEmotionalState returned
  ops,        \* number of operations started
  batch,      \* history: the table when the current group of overlapping calls began, and the calls
  needs,      \* agentPsychology.psychologicalNeeds: agent -> needs, for the agents with a profile
  sideEffects,\* rows written by the social and the narrative effects of ended conversations
  fn,             \* the last direct call of a pure function: its arguments and its result
  worldWeather,   \* the worldWeather row
  worldAtmosphere,\* the worldAtmosphere table, oldest snapshot first
  worldEvents,    \* the worldEvents table, oldest row first
  weatherResult,  \* what the last updateWorldWeather drew and returned
  worldOps,       \* number of world operations run
  worldTime,      \* the worldTime row
  positions,      \* world.players: agent -> position of its player
  chambers,       \* resonanceChambers: the fields of each row that change
  resonance,      \* what the last applyResonanceEffects wrote and called
  chamberOps,     \* number of social operations run
  emotionalMemories \* the emotionalMemories table, oldest row first

emotionVars == <<clock, psych, bonds, calls, events, lastRead, ops, batch, needs, sideEffects>>
probeVars == <<fn>>
worldVars == <<worldWeather, worldAtmosphere, worldEvents, weatherResult, worldOps, worldTime>>
chamberVars == <<positions, chambers, resonance, chamberOps>>
memoryVars == <<emotionalMemories>>
vars == <<emotionVars, probeVars, worldVars, chamberVars, memoryVars>>

Procs == {"p1", "p2"}
Idle == [op |-> "idle"]
NoCallInFlight == \A q \in Procs : calls[q].op = "idle"

\* the functions called directly; a direct call reads no table and a handler reads
\* no direct call's result, so handlers run while no direct call has been made
PureCalls == {"decayEmotions", "decayEmotionsAgain", "calculateContagionStrength",
              "applyEmotionalContagion", "calculateEmotionalSimilarity",
              "determineEmotionalWeather"}
NoPureCall == fn.op \notin PureCalls

\* inputs of the emotion operations
\* <<agent, emotion, intensity>>; a3 has no profile row
TriggersIn ==
  {<<"a1", <<"joy", 60>>>>, <<"a1", <<"joy", 0>>>>, <<"a1", <<"joy", -50>>>>,
   <<"a2", <<"fear", 60>>>>, <<"a3", <<"joy", 60>>>>}
ReadsIn == {"a1", "a3"}
\* <<source, target>>, proximity 1.0 as every caller passes it
ContagionsIn == {<<"a1", "a2">>, <<"a2", "a1">>, <<"a1", "a3">>}
FULL_PROXIMITY == 1000
\* a caller takes the first free slot
FirstIdle(p) == calls[p].op = "idle" /\ (p = "p2" => calls["p1"].op # "idle")

NullState ==
  [emotions |-> [e \in Emotions |-> 0], valence |-> 0, arousal |-> 0, dominance |-> 0,
   currentMood |-> "none", moodIntensity |-> 0, lastUpdated |-> 0]

NullRow == [emotionalState |-> NullState, updatedAt |-> 0]

initializeEmotionalBond(agent1, agent2) ==
  [agent1Id |-> agent1, agent2Id |-> agent2, affection |-> 20, trust |-> 15,
   respect |-> 25, rivalry |-> 0, totalInteractions |-> 0]

EmotionInit ==
  /\ clock = 0
  /\ psych = [a \in {"a1", "a2"} |-> initializeAgentPsychology(a, 0)]
  /\ bonds = {initializeEmotionalBond("a1", "a2")}
  /\ calls = [q \in Procs |-> Idle]
  /\ events = [emotional |-> 0, contagion |-> 0]
  /\ lastRead = [agent |-> "none", found |-> FALSE, seq |-> 0, row |-> NullRow, state |-> NullState]
  /\ ops = 0
  /\ batch = [base |-> [a \in {"a1", "a2"} |-> initializeAgentPsychology(a, 0)], calls |-> <<>>]
  /\ needs = [a \in {"a1", "a2"} |-> initializeNeeds(a, 0)]
  /\ sideEffects = NoSideEffects

\* ------------------------------------------------------------ triggerEmotion
\* a state in which the new intensity replaces the channel's value
TriggerStateReplacing(row, agent, emotion, intensity, now) ==
  LET minutesElapsed == now - row.emotionalState.lastUpdated
      decayed == decayEmotions(row.emotionalState.emotions, minutesElapsed, Regulation(agent))
      modulated == MulUnit(intensity, getPersonalityEmotionModifier(emotion, Personality(agent)))
  IN MakeState([decayed EXCEPT ![emotion] = Min2(100 * Unit, modulated)], now)

\* the emotionalState computed from the row that was read; intensity in thousandths
TriggerState(row, agent, emotion, intensity, now) ==
  LET minutesElapsed == now - row.emotionalState.lastUpdated
      decayed == decayEmotions(row.emotionalState.emotions, minutesElapsed, Regulation(agent))
      modulated == MulUnit(intensity, getPersonalityEmotionModifier(emotion, Personality(agent)))
      em == IF emotion \in Emotions
            THEN [decayed EXCEPT ![emotion] = Min2(100 * Unit, decayed[emotion] + modulated)]
            ELSE decayed
  IN MakeState(em, now)

\* a call that reads the row again when it writes
TriggerBaseFresh(p) == psych[calls[p].agent]

\* the row a triggerEmotion call patches in: computed from the row it read
TriggerBase(p) == calls[p].snap

TriggerBegin(p, a, e, x) ==
  /\ FirstIdle(p)
  /\ ops < MaxOps
  /\ ops' = ops + 1
  /\ IF a \notin DOMAIN psych
     THEN UNCHANGED <<calls, batch>>
     ELSE LET c == [op |-> "trigger", agent |-> a, emotion |-> e, intensity |-> x * Unit,
                    now |-> clock]
          IN /\ calls' = [calls EXCEPT ![p] =
                            [op |-> "trigger", agent |-> a, emotion |-> e,
                             intensity |-> x * Unit, now |-> clock, snap |-> psych[a]]]
             /\ batch' = IF NoCallInFlight
                         THEN [base |-> psych, calls |-> <<c>>]
                         ELSE [batch EXCEPT !.calls = Append(@, c)]
  /\ UNCHANGED <<clock, psych, bonds, needs, sideEffects, events, lastRead>>
  /\ UNCHANGED <<probeVars, worldVars, chamberVars, memoryVars>>

TriggerEnd(p) ==
  /\ calls[p].op = "trigger"
  /\ LET c == calls[p]
         newState == TriggerState(TriggerBase(p), c.agent, c.emotion, c.intensity, c.now)
     IN /\ psych' = [psych EXCEPT ![c.agent] =
                       [emotionalState |-> newState, updatedAt |-> c.now]]
        /\ events' = IF c.intensity > SPIKE_LOG_THRESHOLD * Unit
                     THEN [events EXCEPT !.emotional = @ + 1]
                     ELSE events
  /\ calls' = [calls EXCEPT ![p] = Idle]
  /\ UNCHANGED <<clock, bonds, needs, sideEffects, lastRead, ops, batch>>
  /\ UNCHANGED <<probeVars, worldVars, chamberVars, memoryVars>>

\* ---------------------------------------------------------- processContagion
\* the bond row found by the lookup (agent1Id = source, agent2Id = target)
FindBond(source, target) ==
  {b \in bonds : b.agent1Id = source /\ b.agent2Id = target}

\* a bond strength that counts affection alone
BondStrengthAffection(source, target) ==
  IF FindBond(source, target) # {}
  THEN LET b == CHOOSE x \in FindBond(source, target) : TRUE
       IN b.affection * Unit
  ELSE DEFAULT_BOND_STRENGTH * Unit

\* bondStrength in thousandths
BondStrength(source, target) ==
  IF FindBond(source, target) # {}
  THEN LET b == CHOOSE x \in FindBond(source, target) : TRUE
       IN ((b.affection + b.trust) * Unit) \div 2
  ELSE DEFAULT_BOND_STRENGTH * Unit

ContagionStrength(source, target, bondStrength, proximity) ==
  calculateContagionStrength(Empathy(source), Empathy(target), bondStrength, proximity)

ContagionEmotions(sourceRow, targetRow, source, target, bondStrength, proximity, now) ==
  LET minutesElapsed == now - targetRow.emotionalState.lastUpdated
      decayed == decayEmotions(targetRow.emotionalState.emotions, minutesElapsed,
                               Regulation(target))
  IN [decayed |-> decayed,
      new |-> applyEmotionalContagion(decayed, sourceRow.emotionalState.emotions,
                ContagionStrength(source, target, bondStrength, proximity))]

MaxAbsDiff(new, old) ==
  LET d(e) == Abs(new[e] - old[e])
  IN d(CHOOSE e \in Emotions : \A f \in Emotions : d(f) <= d(e))

ContagionBegin(p, s, t, prox) ==
  /\ FirstIdle(p)
  /\ ops < MaxOps
  /\ ops' = ops + 1
  /\ IF s \notin DOMAIN psych \/ t \notin DOMAIN psych
     THEN UNCHANGED <<calls, batch>>
     ELSE LET c == [op |-> "contagion", source |-> s, target |-> t, proximity |-> prox,
                    bond |-> BondStrength(s, t), now |-> clock]
          IN /\ calls' = [calls EXCEPT ![p] =
                            [op |-> "contagion", source |-> s, target |-> t,
                             proximity |-> prox, bond |-> BondStrength(s, t), now |-> clock,
                             snapSource |-> psych[s], snapTarget |-> psych[t]]]
             /\ batch' = IF NoCallInFlight
                         THEN [base |-> psych, calls |-> <<c>>]
                         ELSE [batch EXCEPT !.calls = Append(@, c)]
  /\ UNCHANGED <<clock, psych, bonds, needs, sideEffects, events, lastRead>>
  /\ UNCHANGED <<probeVars, worldVars, chamberVars, memoryVars>>

\* a patch that also stamps the source row
ContagionPatchBoth(db, c, newState) ==
  [db EXCEPT ![c.target] = [emotionalState |-> newState, updatedAt |-> c.now],
             ![c.source].updatedAt = c.now]

\* ctx.db.patch(targetPsych._id, ...): the one row a processContagion writes
ContagionPatch(db, c, newState) ==
  [db EXCEPT ![c.target] = [emotionalState |-> newState, updatedAt |-> c.now]]

ContagionEnd(p) ==
  /\ calls[p].op = "contagion"
  /\ LET c == calls[p]
         r == ContagionEmotions(c.snapSource, c.snapTarget, c.source, c.target,
                                c.bond, c.proximity, c.now)
     IN /\ psych' = ContagionPatch(psych, c, MakeState(r.new, c.now))
        /\ events' = IF MaxAbsDiff(r.new, r.decayed) > CONTAGION_LOG_THRESHOLD * Unit
                     THEN [events EXCEPT !.contagion = @ + 1]
                     ELSE events
  /\ calls' = [calls EXCEPT ![p] = Idle]
  /\ UNCHANGED <<clock, bonds, needs, sideEffects, lastRead, ops, batch>>
  /\ UNCHANGED <<probeVars, worldVars, chamberVars, memoryVars>>

\* --------------------------------------------------------- getEmotionalState
EmotionalStateOf(row, agent, now) ==
  MakeState(decayEmotions(row.emotionalState.emotions,
                          now - row.emotionalState.lastUpdated, Regulation(agent)),
            now)

\* a query that stores the decayed state it returns
PsychAfterReadPersisted(a) ==
  IF a \in DOMAIN psych
  THEN [psych EXCEPT ![a].emotionalState =
          MakeState(decayEmotions(psych[a].emotionalState.emotions,
                                  clock - psych[a].emotionalState.lastUpdated, Regulation(a)),
                    clock)]
  ELSE psych

\* the agentPsychology table after the query: the handler holds no ctx.db write
PsychAfterRead(a) == psych

\* lastRead keeps, with the result, the row the query read and the number of the read
GetEmotionalState(a) ==
  /\ ops < MaxOps
  /\ ops' = ops + 1
  /\ lastRead' = IF a \in DOMAIN psych
                 THEN [agent |-> a, found |-> TRUE, seq |-> ops + 1, row |-> psych[a],
                       state |-> EmotionalStateOf(psych[a], a, clock)]
                 ELSE [agent |-> a, found |-> FALSE, seq |-> ops + 1, row |-> NullRow,
                       state |-> NullState]
  /\ psych' = PsychAfterRead(a)
  /\ UNCHANGED <<clock, bonds, needs, sideEffects, calls, events, batch>>
  /\ UNCHANGED <<probeVars, worldVars, chamberVars, memoryVars>>

Tick ==
  /\ clock < MaxClock
  /\ clock' = clock + 1
  /\ UNCHANGED <<psych, bonds, needs, sideEffects, calls, events, lastRead, ops, batch>>
  /\ UNCHANGED <<probeVars, worldVars, chamberVars, memoryVars>>

\* triggerEmotion run from start to end with no other call in between
AfterTriggerInitializing(db, agent, emotion, intensity, now) ==
  LET rows == IF agent \in DOMAIN db THEN db
              ELSE [b \in DOMAIN db \cup {agent} |->
                      IF b = agent THEN initializeAgentPsychology(agent, now) ELSE db[b]]
  IN [rows EXCEPT ![agent] =
        [emotionalState |-> TriggerState(rows[agent], agent, emotion, intensity, now),
         updatedAt |-> now]]

AfterTrigger(db, agent, emotion, intensity, now) ==
  IF agent \in DOMAIN db
  THEN [db EXCEPT ![agent] =
          [emotionalState |-> TriggerState(db[agent], agent, emotion, intensity, now),
           updatedAt |-> now]]
  ELSE db

EventsAfterTrigger(ev, db, agent, intensity) ==
  IF agent \in DOMAIN db /\ intensity > SPIKE_LOG_THRESHOLD * Unit
  THEN [ev EXCEPT !.emotional = @ + 1]
  ELSE ev

TriggerEmotion(a, e, x) ==
  /\ NoCallInFlight
  /\ worldOps < MaxWorldOps
  /\ worldOps' = worldOps + 1
  /\ psych' = AfterTrigger(psych, a, e, x * Unit, clock)
  /\ events' = EventsAfterTrigger(events, psych, a, x * Unit)
  /\ UNCHANGED <<clock, bonds, needs, sideEffects, calls, lastRead, ops, batch>>
  /\ UNCHANGED <<worldWeather, worldAtmosphere, worldEvents, weatherResult, worldTime>>
  /\ UNCHANGED <<probeVars, chamberVars, memoryVars>>

\* ------------------------------------------------------ collective dominance
RECURSIVE SumSeq(_)
SumSeq(s) == IF s = <<>> THEN 0 ELSE Head(s) + SumSeq(Tail(s))

\* emotions.sort((a, b) => b.value - a.value)[0]: the first maximal channel
DominantOf(em) ==
  LET i == CHOOSE k \in 1..Len(EmotionOrder) :
             /\ \A j \in 1..Len(EmotionOrder) : em[EmotionOrder[j]] <= em[EmotionOrder[k]]
             /\ \A j \in 1..(k - 1) : em[EmotionOrder[j]] < em[EmotionOrder[k]]
  IN EmotionOrder[i]

\* emotionCounts / emotionIntensities over a non-empty sequence of intensity
\* records: the emotion most agents are dominated by (the first counted wins a
\* tie), how many agents, and the mean of their values of it
DominantCollective(ems) ==
  LET n == Len(ems)
      dom == [i \in 1..n |-> DominantOf(ems[i])]
      holders(e) == {i \in 1..n : dom[i] = e}
      first(e) == CHOOSE i \in holders(e) : \A j \in holders(e) : i <= j
      present == {dom[i] : i \in 1..n}
      best == CHOOSE e \in present :
                \A f \in present :
                  \/ Cardinality(holders(f)) < Cardinality(holders(e))
                  \/ /\ Cardinality(holders(f)) = Cardinality(holders(e))
                     /\ first(e) <= first(f)
      values == [i \in 1..n |-> IF dom[i] = best THEN ems[i][best] ELSE 0]
  IN [emotion |-> best,
      count |-> Cardinality(holders(best)),
      intensity |-> SumSeq(values) \div Cardinality(holders(best))]

\* ------------------------------------------------------------------ weather
\* thresholds in whole points
EMOTION_TO_WEATHER ==
  [joy          |-> [weather |-> "clear",         threshold |-> 60],
   sadness      |-> [weather |-> "rain",          threshold |-> 55],
   fear         |-> [weather |-> "storm",         threshold |-> 65],
   anger        |-> [weather |-> "storm",         threshold |-> 60],
   trust        |-> [weather |-> "partly_cloudy", threshold |-> 50],
   anticipation |-> [weather |-> "windy",         threshold |-> 55],
   disgust      |-> [weather |-> "fog",           threshold |-> 60],
   surprise     |-> [weather |-> "clear",         threshold |-> 50]]

\* a mapping that arousal does not adjust
determineEmotionalWeatherUnadjusted(dominantEmotion, intensity, valence, arousal) ==
  IF dominantEmotion \notin DOMAIN EMOTION_TO_WEATHER
  THEN [weather |-> "partly_cloudy", emotionallyDriven |-> FALSE]
  ELSE IF intensity < EMOTION_TO_WEATHER[dominantEmotion].threshold * Unit
  THEN [weather |-> "partly_cloudy", emotionallyDriven |-> FALSE]
  ELSE [weather |-> EMOTION_TO_WEATHER[dominantEmotion].weather, emotionallyDriven |-> TRUE]

\* a mapping applied whatever the intensity
determineEmotionalWeatherAnyIntensity(dominantEmotion, intensity, valence, arousal) ==
  IF dominantEmotion \notin DOMAIN EMOTION_TO_WEATHER
  THEN [weather |-> "partly_cloudy", emotionallyDriven |-> FALSE]
  ELSE [weather |-> EMOTION_TO_WEATHER[dominantEmotion].weather, emotionallyDriven |-> TRUE]

determineEmotionalWeather(dominantEmotion, intensity, valence, arousal) ==
  IF dominantEmotion \notin DOMAIN EMOTION_TO_WEATHER
  THEN [weather |-> "partly_cloudy", emotionallyDriven |-> FALSE]
  ELSE IF intensity < EMOTION_TO_WEATHER[dominantEmotion].threshold * Unit
  THEN [weather |-> "partly_cloudy", emotionallyDriven |-> FALSE]
  ELSE LET w0 == EMOTION_TO_WEATHER[dominantEmotion].weather
           w1 == IF arousal > 70 * Unit /\ w0 = "rain" THEN "storm"
                 ELSE IF arousal < 30 * Unit /\ w0 = "rain" THEN "light_rain"
                 ELSE w0
           w2 == IF valence > 40 * Unit /\ w1 = "cloudy" THEN "partly_cloudy"
                 ELSE IF valence < -40 * Unit /\ w1 = "cloudy" THEN "overcast"
                 ELSE w1
       IN [weather |-> w2, emotionallyDriven |-> TRUE]

NATURAL_TRANSITIONS ==
  [clear         |-> <<"clear", "clear", "partly_cloudy", "windy">>,
   partly_cloudy |-> <<"clear", "partly_cloudy", "cloudy", "windy">>,
   cloudy        |-> <<"partly_cloudy", "cloudy", "overcast", "light_rain">>,
   overcast      |-> <<"cloudy", "overcast", "rain", "fog">>,
   light_rain    |-> <<"cloudy", "light_rain", "rain", "partly_cloudy">>,
   rain          |-> <<"light_rain", "rain", "storm", "overcast">>,
   storm         |-> <<"rain", "storm", "rain", "overcast">>,
   fog           |-> <<"fog", "overcast", "cloudy", "partly_cloudy">>,
   snow          |-> <<"snow", "cloudy", "clear", "partly_cloudy">>,
   windy         |-> <<"windy", "partly_cloudy", "clear", "cloudy">>]

\* a progression that lets a cloudy sky turn to snow
generateNaturalWeatherWithSnow(currentWeather, pick) ==
  IF currentWeather = "cloudy" /\ pick = 3 THEN "snow"
  ELSE NATURAL_TRANSITIONS[currentWeather][pick]

\* pick is Math.floor(Math.random() * possibleNext.length), counted from 1
generateNaturalWeather(currentWeather, pick) == NATURAL_TRANSITIONS[currentWeather][pick]

\* ---------------------------------------------------------------- world time
\* TIME_BOUNDARIES, in hours: night is what is left
TIME_BOUNDARIES ==
  [dawn |-> <<5, 7>>, morning |-> <<7, 12>>, afternoon |-> <<12, 17>>, dusk |-> <<17, 19>>]

getTimeOfDay(hour) ==
  IF hour >= TIME_BOUNDARIES.dawn[1] /\ hour < TIME_BOUNDARIES.dawn[2] THEN "dawn"
  ELSE IF hour >= TIME_BOUNDARIES.morning[1] /\ hour < TIME_BOUNDARIES.morning[2] THEN "morning"
  ELSE IF hour >= TIME_BOUNDARIES.afternoon[1] /\ hour < TIME_BOUNDARIES.afternoon[2]
    THEN "afternoon"
  ELSE IF hour >= TIME_BOUNDARIES.dusk[1] /\ hour < TIME_BOUNDARIES.dusk[2] THEN "dusk"
  ELSE "night"

\* the worldTime row inserted by initializeWorldSystems: 9:00, ten times real time
initializeWorldTime(now) ==
  [timeScale |-> 10, timeOfDay |-> getTimeOfDay(9), dayNumber |-> 0, hour |-> 9, minute |-> 0,
   lastUpdated |-> now]

\* what one call of updateWorldTime at time now makes of the worldTime row; the
\* clock counts whole minutes, so the scaled minutes are whole
updateWorldTime(time, now) ==
  LET scaledElapsed == (now - time.lastUpdated) * time.timeScale
      totalMinutes == time.hour * 60 + time.minute + scaledElapsed
      newHour == (totalMinutes \div 60) % 24
      newTimeOfDay == getTimeOfDay(newHour)
      changed == time.timeOfDay # newTimeOfDay
  IN [worldTime |->
        [time EXCEPT !.hour = newHour, !.minute = totalMinutes % 60,
                     !.dayNumber = @ + (totalMinutes \div (24 * 60)),
                     !.timeOfDay = newTimeOfDay, !.lastUpdated = now],
      inserted |-> IF changed
                   THEN <<[eventType |-> "time_change", timestamp |-> now,
                           emotionallyDriven |-> FALSE, triggeringEmotion |-> "undefined"]>>
                   ELSE <<>>,
      timeChanged |-> changed]

\* ------------------------------------------------------------------- weather
initializeWorldWeather(now) ==
  [currentWeather |-> "partly_cloudy", weatherIntensity |-> 50, emotionalInfluence |-> 30,
   nextWeather |-> "partly_cloudy", transitionProgress |-> 0,
   weatherStartTime |-> now, weatherDuration |-> 15,
   recentWeather |-> <<[weather |-> "partly_cloudy", timestamp |-> now,
                        emotionalInfluence |-> FALSE]>>,
   lastUpdated |-> now]

NoWeatherResult ==
  [weatherChanged |-> FALSE, newWeather |-> "undefined", emotionallyDriven |-> FALSE,
   triggeringEmotion |-> "undefined", path |-> "none", roll |-> 0, snapshot |-> 0,
   seq |-> 0]

WorldInit ==
  /\ worldWeather = initializeWorldWeather(0)
  /\ worldAtmosphere = <<>>
  /\ worldEvents = <<[eventType |-> "weather_initialized", timestamp |-> 0,
                      emotionallyDriven |-> FALSE, triggeringEmotion |-> "undefined"]>>
  /\ weatherResult = NoWeatherResult
  /\ worldOps = 0
  /\ worldTime = initializeWorldTime(0)

\* the agentPsychology rows in table order
PsychRows == SelectSeq(AgentOrder, LAMBDA a : a \in DOMAIN psych)

\* the share of the most frequent dominant emotion, in place of the rest
EmotionalDiversityOfShare(count, maxCount) ==
  Min2(100 * Unit, (maxCount * 100 * Unit) \div count)

\* Math.min(100, ((count - maxCount) / count) * 100)
EmotionalDiversity(count, maxCount) ==
  Min2(100 * Unit, ((count - maxCount) * 100 * Unit) \div count)

\* a trend that turns at a difference of ten
TrendOfFromTen(avgValence, previous) ==
  LET valenceDiff == IF previous = <<>> THEN 0
                     ELSE avgValence - previous[Len(previous)].averageValence
  IN IF valenceDiff >= 10 * Unit THEN "rising"
     ELSE IF valenceDiff <= -10 * Unit THEN "falling"
     ELSE "stable"

\* previous is the worldAtmosphere table: its last row is the one read with
\* order('desc').first()
TrendOf(avgValence, previous) ==
  LET valenceDiff == IF previous = <<>> THEN 0
                     ELSE avgValence - previous[Len(previous)].averageValence
  IN IF valenceDiff > 10 * Unit THEN "rising"
     ELSE IF valenceDiff < -10 * Unit THEN "falling"
     ELSE "stable"

\* the snapshot inserted by calculateWorldAtmosphere: built from the stored rows.
\* count and maxCount are history: the two numbers the diversity was computed from
AtmosphereOf(db, rows, previous, now) ==
  LET count == Len(rows)
      st == [i \in 1..count |-> db[rows[i]].emotionalState]
      avgValence == SumSeq([i \in 1..count |-> st[i].valence]) \div count
      avgArousal == SumSeq([i \in 1..count |-> st[i].arousal]) \div count
      avgDominance == SumSeq([i \in 1..count |-> st[i].dominance]) \div count
      d == DominantCollective([i \in 1..count |-> st[i].emotions])
  IN [averageValence |-> avgValence,
      averageArousal |-> avgArousal,
      averageDominance |-> avgDominance,
      dominantEmotion |-> d.emotion,
      emotionalDiversity |-> EmotionalDiversity(count, d.count),
      count |-> count,
      maxCount |-> d.count,
      trend |-> TrendOf(avgValence, previous),
      intensity |-> d.intensity,
      calculatedAt |-> now]

LastOf(s) == s[Len(s)]

\* what calculateWorldAtmosphere returns after an insert
AtmosphereReturned(a) ==
  [avgValence |-> a.averageValence, avgArousal |-> a.averageArousal,
   dominantEmotion |-> a.dominantEmotion, intensity |-> a.intensity, trend |-> a.trend]

NoAtmosphere ==
  [avgValence |-> 0, avgArousal |-> 0, dominantEmotion |-> "none", intensity |-> 0,
   trend |-> "none"]

InsertAtmosphereOverLast(table, snapshot) ==
  IF table = <<>> THEN <<snapshot>> ELSE [table EXCEPT ![Len(table)] = snapshot]

\* ctx.db.insert('worldAtmosphere', ...): a new document after the ones there are
InsertAtmosphere(table, snapshot) == Append(table, snapshot)

CalculateWorldAtmosphere ==
  /\ NoCallInFlight
  /\ worldOps < MaxWorldOps
  /\ worldOps' = worldOps + 1
  /\ worldAtmosphere' = IF Len(PsychRows) = 0
                        THEN worldAtmosphere
                        ELSE InsertAtmosphere(worldAtmosphere,
                                              AtmosphereOf(psych, PsychRows, worldAtmosphere, clock))
  /\ fn' = IF Len(PsychRows) = 0
           THEN [op |-> "calculateWorldAtmosphere", seq |-> worldOps + 1, agents |-> 0,
                 returnedNull |-> TRUE, returned |-> NoAtmosphere]
           ELSE [op |-> "calculateWorldAtmosphere", seq |-> worldOps + 1,
                 agents |-> Len(PsychRows), returnedNull |-> FALSE,
                 returned |-> AtmosphereReturned(LastOf(worldAtmosphere'))]
  /\ UNCHANGED <<worldWeather, worldEvents, weatherResult, worldTime>>
  /\ UNCHANGED <<emotionVars, chamberVars, memoryVars>>

\* a choice that takes the emotional path up to and at emotionalInfluence
ChosenWeatherAtInfluence(weather, atmosphere, roll, pick) ==
  IF atmosphere # <<>> /\ roll <= weather.emotionalInfluence
  THEN LET a == atmosphere[Len(atmosphere)]
           r == determineEmotionalWeather(a.dominantEmotion, a.intensity,
                                          a.averageValence, a.averageArousal)
       IN [weather |-> r.weather, emotionallyDriven |-> r.emotionallyDriven,
           path |-> "emotional"]
  ELSE [weather |-> generateNaturalWeather(weather.currentWeather, pick),
        emotionallyDriven |-> FALSE, path |-> "natural"]

\* the weather chosen by a transition: roll is Math.random() * 100
ChosenWeather(weather, atmosphere, roll, pick) ==
  IF atmosphere # <<>> /\ roll < weather.emotionalInfluence
  THEN LET a == atmosphere[Len(atmosphere)]
           r == determineEmotionalWeather(a.dominantEmotion, a.intensity,
                                          a.averageValence, a.averageArousal)
       IN [weather |-> r.weather, emotionallyDriven |-> r.emotionallyDriven,
           path |-> "emotional"]
  ELSE [weather |-> generateNaturalWeather(weather.currentWeather, pick),
        emotionallyDriven |-> FALSE, path |-> "natural"]

LastFive(s) == IF Len(s) <= 5 THEN s ELSE SubSeq(s, Len(s) - 4, Len(s))

\* the last four entries of a list
LastFour(s) == IF Len(s) <= 4 THEN s ELSE SubSeq(s, Len(s) - 3, Len(s))

\* a window that is held through its last instant
StillInCurrentWeatherAtEnd(weather, now) ==
  now - weather.weatherStartTime <= weather.weatherDuration

\* timeSinceWeatherChange < worldWeather.weatherDuration
StillInCurrentWeather(weather, now) ==
  now - weather.weatherStartTime < weather.weatherDuration

\* what one call of updateWorldWeather at time now makes of the weather row and the
\* atmosphere table: the row it patches, the worldEvents rows it inserts and what it
\* returns.  roll, pick and minutes are the three Math.random() draws of the call,
\* seq its number
updateWorldWeather(weather, atmosphere, now, seq, roll, pick, minutes) ==
  IF StillInCurrentWeather(weather, now)
  THEN [worldWeather |->
          [weather EXCEPT
             !.transitionProgress = DivUnit(now - weather.weatherStartTime, weather.weatherDuration),
             !.lastUpdated = now],
        inserted |-> <<>>,
        result |-> [NoWeatherResult EXCEPT !.path = "hold", !.seq = seq]]
  ELSE LET c == ChosenWeather(weather, atmosphere, roll, pick)
           triggering == IF c.emotionallyDriven
                         THEN atmosphere[Len(atmosphere)].dominantEmotion
                         ELSE "undefined"
       IN [worldWeather |->
             [weather EXCEPT
                !.currentWeather = c.weather,
                !.weatherStartTime = now,
                !.weatherDuration = minutes,
                !.transitionProgress = 0,
                !.recentWeather =
                   Append(LastFour(@),
                          [weather |-> c.weather, timestamp |-> now,
                           emotionalInfluence |-> c.emotionallyDriven]),
                !.lastUpdated = now],
           inserted |->
             <<[eventType |-> "weather_change", timestamp |-> now,
                emotionallyDriven |-> c.emotionallyDriven,
                triggeringEmotion |-> triggering]>>,
           result |->
             [weatherChanged |-> TRUE, newWeather |-> c.weather,
              emotionallyDriven |-> c.emotionallyDriven,
              triggeringEmotion |-> triggering,
              path |-> c.path, roll |-> roll, snapshot |-> Len(atmosphere),
              seq |-> seq]]

\* the call is one of at most limit world operations
UpdateWorldWeatherWithin(limit, roll, pick, minutes) ==
  /\ worldOps < limit
  /\ worldOps' = worldOps + 1
  /\ \E u \in {updateWorldWeather(worldWeather, worldAtmosphere, clock, worldOps + 1,
                                   roll, pick, minutes)} :
       /\ worldWeather' = u.worldWeather
       /\ worldEvents' = worldEvents \o u.inserted
       /\ weatherResult' = u.result
  /\ UNCHANGED <<worldAtmosphere, worldTime>>
  /\ UNCHANGED <<emotionVars, probeVars, chamberVars, memoryVars>>

UpdateWorldWeather(roll, pick, minutes) ==
  UpdateWorldWeatherWithin(MaxWorldOps, roll, pick, minutes)

\* real time passing between two world operations, up to the time limit
ElapseUntil(limit, d) ==
  /\ clock + d <= limit
  /\ clock' = clock + d
  /\ UNCHANGED <<psych, bonds, needs, sideEffects, calls, events, lastRead, ops, batch>>
  /\ UNCHANGED <<probeVars, worldVars, chamberVars, memoryVars>>

Elapse(d) == ElapseUntil(MaxWorldClock, d)

\* ------------------------------------------------------------------ world tick
\* getTimeOfDayEmotionalModifiers(timeOfDay).emotions: <<emotion, change>>
TIME_OF_DAY_EMOTIONS ==
  [dawn |-> <<(<<"anticipation", 10>>), (<<"trust", 5>>)>>,
   morning |-> <<(<<"joy", 10>>), (<<"anticipation", 5>>)>>,
   afternoon |-> <<(<<"trust", 5>>)>>,
   dusk |-> <<(<<"sadness", 5>>), (<<"anticipation", -5>>)>>,
   night |-> <<(<<"trust", 10>>), (<<"fear", 5>>)>>]

\* WEATHER_EMOTIONS[weather].primaryEmotion
WEATHER_EMOTIONS ==
  [clear |-> "joy", partly_cloudy |-> "trust", cloudy |-> "sadness", overcast |-> "sadness",
   light_rain |-> "sadness", rain |-> "sadness", storm |-> "fear", fog |-> "fear",
   snow |-> "surprise", windy |-> "anticipation"]

\* getWeatherEmotionalEffects(weather, intensity).emotions, the change in thousandths
getWeatherEmotionalEffects(weather, intensity) ==
  <<(<<WEATHER_EMOTIONS[weather], (10 * Unit * intensity) \div 50>>)>>

\* the list as pushed by applyEnvironmentalEffects, the changes in thousandths
EnvironmentalEmotions(time, weather, timeChanged) ==
  LET timeEffects == TIME_OF_DAY_EMOTIONS[time.timeOfDay]
  IN (IF timeChanged
      THEN [i \in 1..Len(timeEffects) |-> <<timeEffects[i][1], timeEffects[i][2] * Unit>>]
      ELSE <<>>)
     \o getWeatherEmotionalEffects(weather.currentWeather, weather.weatherIntensity)

\* the triggerEmotion calls of one applyEnvironmentalEffects, agent by agent: every
\* change that is not 0, with its absolute value
EnvironmentalTriggers(agents, changes) ==
  LET kept == SelectSeq(changes, LAMBDA c : c[2] # 0)
      n == Len(kept)
  IN [j \in 1..(Len(agents) * n) |->
        [agent |-> agents[((j - 1) \div n) + 1],
         emotion |-> kept[((j - 1) % n) + 1][1],
         intensity |-> Abs(kept[((j - 1) % n) + 1][2])]]

\* the weather's trigger only on a tick that changed nothing is skipped
NoEnvironmentalChangeNever(timeChanged, weatherChanged) == FALSE

\* if (!args.timeChanged && !args.weatherChanged) return
NoEnvironmentalChange(timeChanged, weatherChanged) == ~timeChanged /\ ~weatherChanged

\* the profiles and the event counts after the triggerEmotion calls from the i-th on
RECURSIVE TriggersApplied(_, _, _, _)
TriggersApplied(st, list, i, now) ==
  IF i > Len(list) THEN st
  ELSE Await([psych |-> AfterTrigger(st.psych, list[i].agent, list[i].emotion,
                                     list[i].intensity, now),
              events |-> EventsAfterTrigger(st.events, st.psych, list[i].agent,
                                            list[i].intensity)],
             LAMBDA next : TriggersApplied(next, list, i + 1, now))

\* st holds the tables; the result also lists the triggerEmotion calls made
applyEnvironmentalEffects(st, agents, timeChanged, weatherChanged, now) ==
  IF NoEnvironmentalChange(timeChanged, weatherChanged)
  THEN [psych |-> st.psych, events |-> st.events, triggers |-> <<>>]
  ELSE LET list == EnvironmentalTriggers(
                     agents, EnvironmentalEmotions(st.worldTime, st.worldWeather, timeChanged))
       IN Await(TriggersApplied([psych |-> st.psych, events |-> st.events], list, 1, now),
                LAMBDA after : [psych |-> after.psych, events |-> after.events,
                                triggers |-> list])

\* a duration drawn from zero
newDurationFromZero(draw) == (draw * 20) \div Unit

\* (10 + Math.random() * 20) minutes, draw = Math.random() in thousandths, in whole
\* minutes as the clock counts them
newDuration(draw) == 10 + (draw * 20) \div Unit

\* a weather update that reads the table as the tick found it
AtmosphereReadByWeatherStale(found, left) == found

\* the worldAtmosphere table read by step 3 of a tick: found is the table as the
\* tick found it, left the table as step 2 left it
AtmosphereReadByWeather(found, left) == left

\* a tick is scheduled once the clock has moved since the last one
TickDue == worldTime.lastUpdated < clock

\* worldTick: the four runMutation calls in the order of the handler, each on the
\* tables the one before it left, with no other mutation in between
WorldTick(roll, pick, draw) ==
  /\ NoCallInFlight
  /\ TickDue
  /\ worldOps' = worldOps + 1
  /\ \E t \in {updateWorldTime(worldTime, clock)} :
     \E atmosphere \in {IF Len(PsychRows) = 0 THEN worldAtmosphere
                        ELSE InsertAtmosphere(worldAtmosphere,
                               AtmosphereOf(psych, PsychRows, worldAtmosphere, clock))} :
     \E u \in {updateWorldWeather(worldWeather,
                                  AtmosphereReadByWeather(worldAtmosphere, atmosphere),
                                  clock, worldOps + 1, roll, pick, newDuration(draw))} :
     \E e \in {applyEnvironmentalEffects(
                 [psych |-> psych, events |-> events, worldTime |-> t.worldTime,
                  worldWeather |-> u.worldWeather],
                 AgentOrder, t.timeChanged, u.result.weatherChanged, clock)} :
       /\ worldTime' = t.worldTime
       /\ worldAtmosphere' = atmosphere
       /\ worldWeather' = u.worldWeather
       /\ worldEvents' = (worldEvents \o t.inserted) \o u.inserted
       /\ weatherResult' = u.result
       /\ psych' = e.psych
       /\ events' = e.events
       /\ fn' = [op |-> "worldTick", seq |-> worldOps + 1, timeChanged |-> t.timeChanged,
                 weatherChanged |-> u.result.weatherChanged,
                 atmosphereNull |-> Len(PsychRows) = 0, triggers |-> e.triggers]
  /\ UNCHANGED <<clock, bonds, needs, sideEffects, calls, lastRead, ops, batch>>
  /\ UNCHANGED <<chamberVars, memoryVars>>

\* inputs of the world operations
WorldTriggersIn == {<<"a1", <<"joy", 0>>>>, <<"a1", <<"sadness", 60>>>>}
\* Math.random() * 100
RollsIn == {0, 29, 30}
\* 10 + Math.random() * 20
DurationsIn == {10, 20}
ElapseIn == {15}

\* arguments of determineEmotionalWeather: a mapped emotion, one that maps to
\* 'clear', the fallback name of an empty count; values on both sides of every
\* comparison the function makes
WeatherEmotionsIn == {"sadness", "joy", "neutral"}
WeatherIntensitiesIn == {0, 55 * Unit - 1, 55 * Unit, 60 * Unit, 100 * Unit}
ValencesIn == {0 - 100 * Unit, 0 - 41 * Unit, 0, 41 * Unit}
ArousalsIn == {0, 30 * Unit - 1, 30 * Unit, 70 * Unit, 70 * Unit + 1, 100 * Unit}

CallDetermineEmotionalWeather(dominantEmotion, intensity, valence, arousal) ==
  /\ fn' = [op |-> "determineEmotionalWeather", dominantEmotion |-> dominantEmotion,
            intensity |-> intensity, valence |-> valence, arousal |-> arousal,
            out |-> determineEmotionalWeather(dominantEmotion, intensity, valence, arousal)]
  /\ UNCHANGED <<emotionVars, worldVars, chamberVars, memoryVars>>

\* the direct calls are made on the world as constructed
WorldAsConstructed == worldOps = 0 /\ clock = 0 /\ fn.op = "none"

WeatherNext ==
  \/ \E t \in WorldTriggersIn : NoPureCall /\ TriggerEmotion(t[1], t[2][1], t[2][2])
  \/ NoPureCall /\ CalculateWorldAtmosphere
  \/ \E roll \in RollsIn, pick \in 1..4, minutes \in DurationsIn :
       NoPureCall /\ UpdateWorldWeather(roll, pick, minutes)
  \/ \E d \in ElapseIn : NoPureCall /\ Elapse(d)
  \/ \E e \in WeatherEmotionsIn, i \in WeatherIntensitiesIn, v \in ValencesIn,
        a \in ArousalsIn :
       WorldAsConstructed /\ CallDetermineEmotionalWeather(e, i, v, a)

\* --------------------------------------------------------- resonance chambers
\* processContagion run from start to end with no other call in between
AfterContagion(db, source, target, proximity, now) ==
  IF source \notin DOMAIN db \/ target \notin DOMAIN db
  THEN db
  ELSE [db EXCEPT ![target] =
          [emotionalState |->
             MakeState(ContagionEmotions(db[source], db[target], source, target,
                                         BondStrength(source, target), proximity, now).new,
                       now),
           updatedAt |-> now]]

EventsAfterContagion(ev, db, source, target, proximity, now) ==
  IF source \notin DOMAIN db \/ target \notin DOMAIN db
  THEN ev
  ELSE LET r == ContagionEmotions(db[source], db[target], source, target,
                                  BondStrength(source, target), proximity, now)
       IN IF MaxAbsDiff(r.new, r.decayed) > CONTAGION_LOG_THRESHOLD * Unit
          THEN [ev EXCEPT !.contagion = @ + 1]
          ELSE ev

\* contagionMultiplier in thousandths; initializeResonanceChambers copies it into
\* every row of the type, and no handler reads it
CHAMBER_TYPES ==
  [amplifier |-> [contagionMultiplier |-> 2500],
   stabilizer |-> [contagionMultiplier |-> 500],
   transformer |-> [contagionMultiplier |-> 1500]]

\* emotionAmplification in thousandths
CHAMBER_TEMPLATES ==
  << [name |-> "The Joy Cafe",             chamberType |-> "amplifier",
      resonanceEmotion |-> "joy",          emotionAmplification |-> 1500],
     [name |-> "The Contemplation Garden", chamberType |-> "stabilizer",
      resonanceEmotion |-> "trust",        emotionAmplification |-> 700],
     [name |-> "The Tension Square",       chamberType |-> "amplifier",
      resonanceEmotion |-> "anger",        emotionAmplification |-> 2000],
     [name |-> "The Melancholy Alcove",    chamberType |-> "transformer",
      resonanceEmotion |-> "sadness",      emotionAmplification |-> 1300],
     [name |-> "The Excitement Plaza",     chamberType |-> "amplifier",
      resonanceEmotion |-> "anticipation", emotionAmplification |-> 1800],
     [name |-> "The Tranquility Chamber",  chamberType |-> "stabilizer",
      resonanceEmotion |-> "undefined",    emotionAmplification |-> 600] >>

ChamberIds == 1..Len(CHAMBER_TEMPLATES)

\* the maps row of the world
MapWidth == 42
MapHeight == 24

\* the rectangle given to the k-th template
ChamberArea(k) ==
  [x |-> ((MapWidth * k) \div (Len(CHAMBER_TEMPLATES) + 1)) - 2,
   y |-> (MapHeight \div 2) - 2,
   width |-> 4,
   height |-> 4]

\* the fields of a new resonanceChambers row that later mutations patch
initializeResonanceChambers(now) ==
  [k \in ChamberIds |->
     [currentOccupants |-> <<>>, activeResonance |-> FALSE, resonanceIntensity |-> 0,
      dominantEmotion |-> "undefined", lastUpdated |-> now]]

InArea(position, area) ==
  /\ position[1] >= area.x
  /\ position[1] < area.x + area.width
  /\ position[2] >= area.y
  /\ position[2] < area.y + area.height

\* occupants that stay listed once they were found
OccupantsFoundSticky(row, area, where) ==
  SelectSeq(AgentOrder,
            LAMBDA a : InArea(where[a], area)
                       \/ \E i \in 1..Len(row.currentOccupants) : row.currentOccupants[i] = a)

\* the occupants list built for the chamber row: players in world order
OccupantsFound(row, area, where) ==
  SelectSeq(AgentOrder, LAMBDA a : InArea(where[a], area))

\* resonance with a single agent
ResonanceRequiresOne(occupants) == Len(occupants) >= 1

\* resonance requires 2+ agents
ResonanceRequires(occupants) == Len(occupants) >= 2

NoResonance == [seq |-> 0, before |-> initializeResonanceChambers(0), patched |-> {}, calls |-> <<>>]

ChamberInit ==
  /\ positions = [a \in Players |-> <<0, 0>>]
  /\ chambers = initializeResonanceChambers(0)
  /\ resonance = NoResonance
  /\ chamberOps = 0

\* an agent's player walks to another tile
MovePlayer(a, to) ==
  /\ positions[a] # to
  /\ positions' = [positions EXCEPT ![a] = to]
  /\ UNCHANGED <<chambers, resonance, chamberOps>>
  /\ UNCHANGED <<emotionVars, probeVars, worldVars, memoryVars>>

UpdateChamberOccupancy ==
  /\ chamberOps < MaxChamberOps
  /\ chamberOps' = chamberOps + 1
  /\ chambers' =
       [k \in ChamberIds |->
          LET occupants == OccupantsFound(chambers[k], ChamberArea(k), positions)
          IN [chambers[k] EXCEPT
                !.currentOccupants = occupants,
                !.activeResonance = ResonanceRequires(occupants),
                !.lastUpdated = clock]]
  /\ UNCHANGED <<positions, resonance>>
  /\ UNCHANGED <<emotionVars, probeVars, worldVars, memoryVars>>

\* (effects.emotionAmplification - 1.0) * resonanceIntensity * 0.3
AmplificationAmount(k, resonanceIntensity) ==
  MulUnit(MulUnit(CHAMBER_TEMPLATES[k].emotionAmplification - Unit, resonanceIntensity), 300)

\* a runMutation that threw, kept as called twice
CaughtCallRetried(s, call) ==
  [s EXCEPT !.calls = @ \o <<[call EXCEPT !.threw = TRUE], [call EXCEPT !.threw = TRUE]>>]

\* a runMutation that threw inside its try block: the catch logs it, no table is written
CaughtCall(s, call) == [s EXCEPT !.calls = Append(@, [call EXCEPT !.threw = TRUE])]

\* the loop over the occupants of chamber k, from the i-th on; st holds the tables
\* and the list of the mutations called so far; throws holds the positions, in that
\* list, of the calls that throw
RECURSIVE OccupantEffects(_, _, _, _, _, _, _)
OccupantEffects(st, k, dominantEmotion, amount, i, now, throws) ==
  LET Triggered(s) ==
        LET call == [chamber |-> k, op |-> "triggerEmotion",
                     agent |-> s.chambers[k].currentOccupants[i], other |-> "none",
                     emotion |-> dominantEmotion, intensity |-> amount, threw |-> FALSE]
        IN IF amount <= 0 THEN s
           ELSE IF (Len(s.calls) + 1) \in throws THEN CaughtCall(s, call)
           ELSE [s EXCEPT
                   !.psych = AfterTrigger(s.psych, call.agent, dominantEmotion, amount, now),
                   !.events = EventsAfterTrigger(s.events, s.psych, call.agent, amount),
                   !.calls = Append(@, call)]
      Spread(s) ==
        LET occ == s.chambers[k].currentOccupants
        IN IF i < Len(occ)
           THEN LET call == [chamber |-> k, op |-> "processContagion", agent |-> occ[i],
                             other |-> occ[i + 1], emotion |-> "none", intensity |-> 0,
                             threw |-> FALSE]
                IN IF (Len(s.calls) + 1) \in throws THEN CaughtCall(s, call)
                   ELSE [s EXCEPT
                           !.psych = AfterContagion(s.psych, occ[i], occ[i + 1],
                                                    FULL_PROXIMITY, now),
                           !.events = EventsAfterContagion(s.events, s.psych, occ[i],
                                                           occ[i + 1], FULL_PROXIMITY, now),
                           !.calls = Append(@, call)]
           ELSE s
      Step(s) ==
        IF i > Len(s.chambers[k].currentOccupants) THEN s
        ELSE Await(Await(Triggered(s), Spread),
                   LAMBDA t : OccupantEffects(t, k, dominantEmotion, amount, i + 1, now,
                                              throws))
  IN Await(st, Step)

\* a chamber row returned by the query on the active index is skipped
SkipsChamber(chamber) == Len(chamber.currentOccupants) < 2

\* the body of the loop over the chambers, for chamber k
ChamberEffects(st, k, now, throws) ==
  LET chamber == st.chambers[k]
      valid == SelectSeq(chamber.currentOccupants, LAMBDA a : a \in DOMAIN st.psych)
      Resonate(d) ==
        LET resonanceIntensity == (d.count * d.intensity) \div Len(valid)
        IN OccupantEffects([st EXCEPT
                              !.chambers[k].dominantEmotion = d.emotion,
                              !.chambers[k].resonanceIntensity = resonanceIntensity,
                              !.chambers[k].lastUpdated = now,
                              !.patched = @ \cup {k}],
                           k, d.emotion, AmplificationAmount(k, resonanceIntensity), 1, now,
                           throws)
  IN IF ~chamber.activeResonance \/ SkipsChamber(chamber) \/ valid = <<>>
     THEN st
     ELSE Await(DominantCollective(
                  [i \in 1..Len(valid) |->
                     EmotionalStateOf(st.psych[valid[i]], valid[i], now).emotions]),
                Resonate)

RECURSIVE ResonanceFrom(_, _, _, _)
ResonanceFrom(st, k, now, throws) ==
  LET Step(s) == IF k > Len(CHAMBER_TEMPLATES) THEN s
                 ELSE ResonanceFrom(ChamberEffects(s, k, now, throws), k + 1, now, throws)
  IN Await(st, Step)

\* one run of the handler in which the calls numbered in throws throw
ApplyResonanceEffectsThrowing(throws) ==
  /\ NoCallInFlight
  /\ chamberOps < MaxChamberOps
  /\ chamberOps' = chamberOps + 1
  /\ \E st \in {ResonanceFrom([psych |-> psych, events |-> events, chambers |-> chambers,
                                patched |-> {}, calls |-> <<>>], 1, clock, throws)} :
       /\ psych' = st.psych
       /\ events' = st.events
       /\ chambers' = st.chambers
       /\ resonance' = [seq |-> chamberOps + 1, before |-> chambers,
                        patched |-> st.patched, calls |-> st.calls]
  /\ UNCHANGED <<clock, bonds, needs, sideEffects, calls, lastRead, ops, batch>>
  /\ UNCHANGED positions
  /\ UNCHANGED <<probeVars, worldVars, memoryVars>>

\* a run in which no call throws
ApplyResonanceEffects == ApplyResonanceEffectsThrowing({})

CHAMBER_CAPACITY == 6

\* a score that leaves a full chamber as attractive as any other
ChamberScoreCrowded(k, row, state, dominantEmotion) ==
  LET t == CHAMBER_TEMPLATES[k]
  IN (IF t.resonanceEmotion = dominantEmotion THEN 50 ELSE 0)
     + (IF state.arousal > 70 * Unit /\ t.chamberType = "amplifier" THEN 20
        ELSE IF state.arousal < 30 * Unit /\ t.chamberType = "stabilizer" THEN 20
        ELSE IF Abs(state.valence) < 20 * Unit /\ t.chamberType = "transformer" THEN 15
        ELSE 0)
     + (IF row.activeResonance /\ row.dominantEmotion = dominantEmotion THEN 25 ELSE 0)

\* a score that grants the bonus to a chamber that no longer resonates
ChamberScoreOfLeftover(k, row, state, dominantEmotion) ==
  LET t == CHAMBER_TEMPLATES[k]
  IN (IF t.resonanceEmotion = dominantEmotion THEN 50 ELSE 0)
     + (IF state.arousal > 70 * Unit /\ t.chamberType = "amplifier" THEN 20
        ELSE IF state.arousal < 30 * Unit /\ t.chamberType = "stabilizer" THEN 20
        ELSE IF Abs(state.valence) < 20 * Unit /\ t.chamberType = "transformer" THEN 15
        ELSE 0)
     - (IF Len(row.currentOccupants) >= CHAMBER_CAPACITY THEN 30 ELSE 0)
     + (IF row.dominantEmotion = dominantEmotion THEN 25 ELSE 0)

\* the score findResonantChamber gives chamber k for an agent's returned state
ChamberScore(k, row, state, dominantEmotion) ==
  LET t == CHAMBER_TEMPLATES[k]
  IN (IF t.resonanceEmotion = dominantEmotion THEN 50 ELSE 0)
     + (IF state.arousal > 70 * Unit /\ t.chamberType = "amplifier" THEN 20
        ELSE IF state.arousal < 30 * Unit /\ t.chamberType = "stabilizer" THEN 20
        ELSE IF Abs(state.valence) < 20 * Unit /\ t.chamberType = "transformer" THEN 15
        ELSE 0)
     - (IF Len(row.currentOccupants) >= CHAMBER_CAPACITY THEN 30 ELSE 0)
     + (IF row.activeResonance /\ row.dominantEmotion = dominantEmotion THEN 25 ELSE 0)

\* null is 0; otherwise the first chamber, in table order, of the highest score;
\* rows is <<>> for a world whose chambers are not inserted yet
findResonantChamber(db, rows, agent, now) ==
  IF agent \notin DOMAIN db \/ rows = <<>> THEN 0
  ELSE LET Best(score) ==
             CHOOSE k \in DOMAIN rows :
               /\ \A j \in DOMAIN rows : score[j] <= score[k]
               /\ \A j \in 1..(k - 1) : score[j] < score[k]
           Scored(state) ==
             Await([k \in DOMAIN rows |->
                      ChamberScore(k, rows[k], state, DominantOf(state.emotions))],
                   Best)
       IN Await(EmotionalStateOf(db[agent], agent, now), Scored)

\* the scores of scoredChambers before the sort, in table order
scoredChambers(db, rows, agent, now) ==
  IF agent \notin DOMAIN db THEN <<>>
  ELSE LET Scored(state) ==
             [k \in DOMAIN rows |->
                ChamberScore(k, rows[k], state, DominantOf(state.emotions))]
       IN Await(EmotionalStateOf(db[agent], agent, now), Scored)

\* the tables findResonantChamber is asked on: the stored one; none, as before
\* initializeResonanceChambers; the stored one with chamber k filled to capacity
ChamberTable(kind) ==
  IF kind = 0 THEN chambers
  ELSE IF kind > Len(CHAMBER_TEMPLATES) THEN <<>>
  ELSE [chambers EXCEPT ![kind].currentOccupants = [i \in 1..CHAMBER_CAPACITY |-> "a4"]]

CallFindResonantChamberOn(a, kind) ==
  /\ fn.op # "findResonantChamber"
  /\ \A found \in {findResonantChamber(psych, ChamberTable(kind), a, clock)} :
       fn' = [op |-> "findResonantChamber", agent |-> a, now |-> clock, table |-> kind,
              scores |-> scoredChambers(psych, ChamberTable(kind), a, clock),
              returnedNull |-> found = 0, returned |-> found]
  /\ UNCHANGED <<emotionVars, worldVars, chamberVars, memoryVars>>

\* inputs of the social operations: a corner tile of the first chamber, the tile
\* just past its right edge (a tile of no chamber), the far corner of the second
PositionsIn ==
  {<<ChamberArea(1).x, ChamberArea(1).y>>,
   <<ChamberArea(1).x + ChamberArea(1).width, ChamberArea(1).y>>,
   <<ChamberArea(2).x + 3, ChamberArea(2).y + 3>>}

ChamberNext ==
  \/ \E a \in Agents, to \in PositionsIn : MovePlayer(a, to)
  \/ UpdateChamberOccupancy
  \/ ApplyResonanceEffects

\* agentPsychology.emotionalBaseline: written once, when the profile is inserted
EmotionalBaseline(a) == [e \in Emotions |-> PERSONALITY_PRESETS[a].emotionalBaseline[e] * Unit]

\* ------------------------------------------------------------ memory resonance
DEFAULT_LIMIT == 5
\* 30 days, in minutes
THIRTY_DAYS == 43200

MemoryInit == emotionalMemories = <<>>

\* the row tagMemoryWithEmotion inserts; lastTriggered is left out (<<>>)
tagMemoryWithEmotion(agent, memoryId, emotionType, intensity, valence, now) ==
  [agentId |-> agent, memoryId |-> memoryId, emotionType |-> emotionType,
   intensity |-> intensity, valence |-> valence,
   resonanceThreshold |-> 100 * Unit - intensity,
   timesTriggered |-> 0, lastTriggered |-> <<>>, created |-> now]

TagMemoryWithEmotion(agent, memoryId, emotionType, intensity, valence) ==
  /\ Len(emotionalMemories) < MaxMemories
  /\ emotionalMemories' = Append(emotionalMemories,
        tagMemoryWithEmotion(agent, memoryId, emotionType, intensity, valence, clock))
  /\ UNCHANGED <<emotionVars, probeVars, worldVars, chamberVars>>

\* the keys of narrativeEvents.emotions, in the order of the object
MomentEmotions == <<"joy", "sadness", "anger", "fear">>

\* Object.entries(emotions).sort(descending)[0][0]: the first key of the largest value
dominantEmotion(emotions) ==
  MomentEmotions[CHOOSE i \in 1..4 :
     /\ \A j \in 1..4 : emotions[MomentEmotions[j]] <= emotions[MomentEmotions[i]]
     /\ \A j \in 1..(i - 1) : emotions[MomentEmotions[j]] < emotions[MomentEmotions[i]]]

\* the row detectCinematicMoment inserts for a primary agent of a dramatic event
momentMemory(agent, memoryId, emotions, significance, now) ==
  [agentId |-> agent, memoryId |-> memoryId, emotionType |-> dominantEmotion(emotions),
   intensity |-> Min2(100 * Unit,
                      (emotions.joy + emotions.sadness + emotions.anger + emotions.fear) \div 4),
   valence |-> emotions.joy - emotions.sadness,
   resonanceThreshold |-> 100 * Unit - significance,
   timesTriggered |-> 0, lastTriggered |-> <<>>, created |-> now]

\* detectCinematicMoment, as far as the emotionalMemories table goes: an event of
\* significance 60 or more, one primary agent, whose memory of the event exists
DetectCinematicMoment(agent, memoryId, emotions, significance) ==
  /\ significance >= 60 * Unit
  /\ Len(emotionalMemories) < MaxMemories
  /\ emotionalMemories' = Append(emotionalMemories,
        momentMemory(agent, memoryId, emotions, significance, clock))
  /\ UNCHANGED <<emotionVars, probeVars, worldVars, chamberVars>>

\* Math.min(1, timesTriggered / 10), in thousandths
triggerBonus(timesTriggered) == Min2(Unit, (timesTriggered * Unit) \div 10)

\* Math.max(0, 1 - (now - created) / 30 days), in thousandths
recencyBonus(created, now) == Max2(0, Unit - DivUnit(now - created, THIRTY_DAYS))

\* the state the memory is compared in: the baseline with the memory's emotion at
\* the memory's intensity
memoryEmotionalState(m, baseline) ==
  [e \in Emotions |-> IF e = m.emotionType THEN m.intensity ELSE baseline[e]]

\* similarity * intensity * (1 + triggerBonus * 0.5) * (1 + recencyBonus * 0.3)
resonanceScore(similarity, m, now) ==
  MulUnit(MulUnit(MulUnit(m.intensity, similarity),
                  Unit + triggerBonus(m.timesTriggered) \div 2),
          Unit + (recencyBonus(m.created, now) * 3) \div 10)

\* Array.prototype.sort((a, b) => b.resonanceScore - a.resonanceScore): stable
SortByScore(list) ==
  LET before(i) == {j \in 1..Len(list) :
                      \/ list[j].resonanceScore > list[i].resonanceScore
                      \/ list[j].resonanceScore = list[i].resonanceScore /\ j < i}
  IN [k \in 1..Len(list) |->
        list[CHOOSE i \in 1..Len(list) : Cardinality(before(i)) + 1 = k]]

\* args.limit || 5: limit is <<>> when the caller leaves it out, <<n>> otherwise
LimitOf(limit) == IF limit = <<>> \/ limit[1] = 0 THEN DEFAULT_LIMIT ELSE limit[1]

\* the query; every memory document the rows point to exists
findResonantMemories(memories, profiles, agent, currentEmotionalState, limit, now) ==
  LET OfAgent(m) == m.agentId = agent
      rows == SelectSeq(memories, OfAgent)
      Scored(m) ==
        LET similarity == calculateEmotionalSimilarity(currentEmotionalState,
                             memoryEmotionalState(m, EmotionalBaseline(agent)))
        IN [memory |-> m.memoryId, emotionalMemory |-> m, similarity |-> similarity,
            resonanceScore |-> resonanceScore(similarity, m, now)]
      scored == [i \in 1..Len(rows) |-> Scored(rows[i])]
      Resonates(r) == r.resonanceScore > r.emotionalMemory.resonanceThreshold
      sorted == SortByScore(SelectSeq(scored, Resonates))
  IN IF agent \notin DOMAIN profiles \/ Len(rows) = 0 THEN <<>>
     ELSE SubSeq(sorted, 1, Min2(Len(sorted), LimitOf(limit)))

CallFindResonantMemories(agent, currentEmotionalState, limit) ==
  /\ fn' = [op |-> "findResonantMemories", agent |-> agent,
            currentEmotionalState |-> currentEmotionalState, limit |-> limit, now |-> clock,
            out |-> findResonantMemories(emotionalMemories, psych, agent,
                                         currentEmotionalState, limit, clock)]
  /\ UNCHANGED <<emotionVars, worldVars, chamberVars, memoryVars>>

\* ctx.db.patch of triggerMemoryResonance
TriggeredRowTwice(m, now) == [m EXCEPT !.timesTriggered = @ + 2, !.lastTriggered = <<now>>]

TriggeredRow(m, now) == [m EXCEPT !.timesTriggered = @ + 1, !.lastTriggered = <<now>>]

\* withIndex('memoryId').first(): the oldest row of the memory, 0 if there is none
FirstRowOf(memories, memoryId) ==
  IF \E i \in 1..Len(memories) : memories[i].memoryId = memoryId
  THEN CHOOSE i \in 1..Len(memories) :
         /\ memories[i].memoryId = memoryId
         /\ \A j \in 1..(i - 1) : memories[j].memoryId # memoryId
  ELSE 0

\* the number of triggers the table has seen
RECURSIVE TotalTriggered(_)
TotalTriggered(memories) ==
  IF memories = <<>> THEN 0 ELSE Head(memories).timesTriggered + TotalTriggered(Tail(memories))

\* the mutation: returns when the memory has no row; the read of the profile of
\* an agent without one throws, and the mutation writes nothing
TriggerMemoryResonance(agent, memoryId) ==
  LET i == FirstRowOf(emotionalMemories, memoryId)
  IN /\ i # 0
     /\ agent \in DOMAIN psych
     /\ TotalTriggered(emotionalMemories) < MaxTriggered
     /\ emotionalMemories' =
          [emotionalMemories EXCEPT ![i] = TriggeredRow(emotionalMemories[i], clock)]
     /\ events' = [events EXCEPT !.emotional = @ + 1]
     /\ UNCHANGED <<clock, psych, bonds, calls, lastRead, ops, batch, needs, sideEffects>>
     /\ UNCHANGED <<probeVars, worldVars, chamberVars>>

\* ------------------------------------------------------------ emotional bonds
\* the lookup of both mutations, tried in one direction only
ExistingBondOneWay(table, agent1, agent2) ==
  {b \in table : b.agent1Id = agent1 /\ b.agent2Id = agent2}

\* the lookup of both mutations: the pair as given, or else the pair reversed
ExistingBond(table, agent1, agent2) ==
  IF {b \in table : b.agent1Id = agent1 /\ b.agent2Id = agent2} # {}
  THEN {b \in table : b.agent1Id = agent1 /\ b.agent2Id = agent2}
  ELSE {b \in table : b.agent1Id = agent2 /\ b.agent2Id = agent1}

\* the table after initializeEmotionalBond: an existing bond is returned as it is
AfterInitializeBond(table, agent1, agent2) ==
  IF ExistingBond(table, agent1, agent2) # {} THEN table
  ELSE table \cup {initializeEmotionalBond(agent1, agent2)}

\* no change: every argument of updateEmotionalBond left out
NoBondChange == [affection |-> 0, trust |-> 0, respect |-> 0, rivalry |-> 0]

\* the row updateEmotionalBond patches; contagionStrength, relationshipType and
\* lastInteraction, which follow from these fields and the time, are left out
PatchedBond(bond, change) ==
  [bond EXCEPT !.affection = Clamp(0, 100, bond.affection + change.affection),
               !.trust = Clamp(0, 100, bond.trust + change.trust),
               !.respect = Clamp(0, 100, bond.respect + change.respect),
               !.rivalry = Clamp(0, 100, bond.rivalry + change.rivalry),
               !.totalInteractions = bond.totalInteractions + 1]

\* the table after updateEmotionalBond: a pair without a bond gets the default
\* one, and the changes of that call are dropped
updateEmotionalBond(table, agent1, agent2, change) ==
  IF ExistingBond(table, agent1, agent2) = {}
  THEN AfterInitializeBond(table, agent1, agent2)
  ELSE LET bond == CHOOSE b \in ExistingBond(table, agent1, agent2) : TRUE
       IN (table \ {bond}) \cup {PatchedBond(bond, change)}

InitializeEmotionalBond(agent1, agent2) ==
  /\ bonds' = AfterInitializeBond(bonds, agent1, agent2)
  /\ fn' = [op |-> "initializeEmotionalBond", agent1 |-> agent1, agent2 |-> agent2,
            change |-> NoBondChange]
  /\ UNCHANGED <<clock, psych, calls, events, lastRead, ops, batch, needs, sideEffects>>
  /\ UNCHANGED <<worldVars, chamberVars, memoryVars>>

UpdateEmotionalBond(agent1, agent2, change) ==
  /\ \A b \in ExistingBond(bonds, agent1, agent2) : b.totalInteractions < MaxInteractions
  /\ bonds' = updateEmotionalBond(bonds, agent1, agent2, change)
  /\ fn' = [op |-> "updateEmotionalBond", agent1 |-> agent1, agent2 |-> agent2,
            change |-> change]
  /\ UNCHANGED <<clock, psych, calls, events, lastRead, ops, batch, needs, sideEffects>>
  /\ UNCHANGED <<worldVars, chamberVars, memoryVars>>

\* ------------------------------------------------- direct calls of the functions
NoCall == [op |-> "none"]

ProbeInit == fn = NoCall

\* inputs: intensity records, emotionalRegulation values whose exponent is a whole
\* number of half steps, and the arguments of calculateContagionStrength
StatesIn ==
  {[e \in Emotions |-> PERSONALITY_PRESETS[a].emotionalBaseline[e] * Unit] : a \in Agents}
  \cup {[e \in Emotions |-> 100 * Unit], [e \in Emotions |-> 0],
        [e \in Emotions |-> IF e = "joy" THEN 1 ELSE 33333]}
RegulationsIn == {0, 50, 100}
EmpathiesIn == {0, 65, 70, 100}
\* bond strengths and proximities in thousandths
BondsIn == {0, 10 * Unit, 50 * Unit, 100 * Unit}
ProximitiesIn == {0 - Unit, 0, Unit \div 2, Unit, 2 * Unit}

CallDecayEmotions(em, minutes, regulation) ==
  /\ fn' = [op |-> "decayEmotions", emotions |-> em, minutes |-> minutes,
            regulation |-> regulation, out |-> decayEmotions(em, minutes, regulation)]
  /\ UNCHANGED <<emotionVars, worldVars, chamberVars, memoryVars>>

\* the result of the last decayEmotions is decayed again, by m minutes
CallDecayEmotionsAgain(m) ==
  /\ fn.op = "decayEmotions"
  /\ fn' = [op |-> "decayEmotionsAgain", emotions |-> fn.emotions, first |-> fn.minutes,
            minutes |-> m, regulation |-> fn.regulation,
            out |-> decayEmotions(fn.out, m, fn.regulation)]
  /\ UNCHANGED <<emotionVars, worldVars, chamberVars, memoryVars>>

CallCalculateMood(em, valence, arousal) ==
  /\ fn' = [op |-> "calculateMood", em |-> em, valence |-> valence, arousal |-> arousal,
            out |-> calculateMood(em, valence, arousal)]
  /\ UNCHANGED <<emotionVars, worldVars, chamberVars, memoryVars>>

CallContagionStrength(sourceEmpathy, targetEmpathy, relationshipBond, proximity) ==
  /\ fn' = [op |-> "calculateContagionStrength", sourceEmpathy |-> sourceEmpathy,
            targetEmpathy |-> targetEmpathy, relationshipBond |-> relationshipBond,
            proximity |-> proximity,
            out |-> calculateContagionStrength(sourceEmpathy, targetEmpathy,
                                               relationshipBond, proximity)]
  /\ UNCHANGED <<emotionVars, worldVars, chamberVars, memoryVars>>

\* intensity records passed to applyEmotionalContagion: the constructed and extreme
\* ones, and the record triggerEmotion(a1, joy, -50) stores
BlendStatesIn ==
  StatesIn
  \cup {TriggerState(initializeAgentPsychology("a1", 0), "a1", "joy", (0 - 50) * Unit, 0).emotions}
  \cup {[e \in Emotions |-> IF e = "joy" THEN 85 * Unit ELSE 40 * Unit],
        [e \in Emotions |-> IF e = "joy" THEN 20 * Unit ELSE 50 * Unit]}
\* contagion strengths in millionths
StrengthsIn == {0, 315 * Unit, RateOne \div 2, RateOne}

CallApplyContagion(targetEmotions, sourceEmotions, contagionStrength) ==
  /\ fn' = [op |-> "applyEmotionalContagion", target |-> targetEmotions,
            source |-> sourceEmotions, strength |-> contagionStrength,
            out |-> applyEmotionalContagion(targetEmotions, sourceEmotions,
                                            contagionStrength)]
  /\ UNCHANGED <<emotionVars, worldVars, chamberVars, memoryVars>>

CallEmotionalSimilarity(state1, state2) ==
  /\ fn' = [op |-> "calculateEmotionalSimilarity", state1 |-> state1, state2 |-> state2,
            out |-> calculateEmotionalSimilarity(state1, state2)]
  /\ UNCHANGED <<emotionVars, worldVars, chamberVars, memoryVars>>

\* ---------------------------------------- the mutations called one at a time
\* each action runs one handler from start to end and keeps, in fn, the arguments,
\* the rows the handler read and what it returned
InitializeAgentPsychologyVaried(a, delta) ==
  /\ NoPureCall
  /\ ops < MaxCalls
  /\ ops' = ops + 1
  /\ psych' = IF a \in DOMAIN psych THEN psych
              ELSE [b \in DOMAIN psych \cup {a} |->
                      IF b = a THEN ProfileOf(varyPersonality(a, delta), clock) ELSE psych[b]]
  /\ needs' = IF a \in DOMAIN psych THEN needs
              ELSE [b \in DOMAIN needs \cup {a} |->
                      IF b = a THEN initializeNeeds(a, clock) ELSE needs[b]]
  /\ fn' = [op |-> "initializeAgentPsychology", agent |-> a, existed |-> a \in DOMAIN psych]
  /\ UNCHANGED <<clock, bonds, sideEffects, calls, events, lastRead, batch>>
  /\ UNCHANGED <<worldVars, chamberVars, memoryVars>>

InitializeAgentPsychology(a) == InitializeAgentPsychologyVaried(a, NoVariation)

\* the same call as the one before it, made at the same time
RepeatsCall(a, e, x) ==
  /\ fn.op = "triggerEmotion"
  /\ fn.found
  /\ fn.agent = a /\ fn.emotion = e /\ fn.intensity = x /\ fn.now = clock

\* values: the channel's value after each call of the current run of equal calls
CallTriggerEmotion(a, e, x) ==
  /\ NoPureCall
  /\ ops < MaxCalls
  /\ ops' = ops + 1
  /\ psych' = AfterTrigger(psych, a, e, x * Unit, clock)
  /\ events' = EventsAfterTrigger(events, psych, a, x * Unit)
  /\ fn' = IF a \in DOMAIN psych
           THEN [op |-> "triggerEmotion", agent |-> a, emotion |-> e, intensity |-> x * Unit,
                 now |-> clock, found |-> TRUE, row |-> psych[a], eventsBefore |-> events,
                 returned |-> psych'[a].emotionalState,
                 values |-> Append(IF RepeatsCall(a, e, x * Unit) THEN fn.values ELSE <<>>,
                                   psych'[a].emotionalState.emotions[e])]
           ELSE [op |-> "triggerEmotion", agent |-> a, emotion |-> e, intensity |-> x * Unit,
                 now |-> clock, found |-> FALSE, row |-> NullRow, eventsBefore |-> events,
                 returned |-> NullState, values |-> <<>>]
  /\ UNCHANGED <<clock, bonds, needs, sideEffects, calls, lastRead, batch>>
  /\ UNCHANGED <<worldVars, chamberVars, memoryVars>>

NoBond == initializeEmotionalBond("none", "none")

CallProcessContagion(s, t, prox) ==
  /\ NoPureCall
  /\ ops < MaxCalls
  /\ ops' = ops + 1
  /\ psych' = AfterContagion(psych, s, t, prox, clock)
  /\ events' = EventsAfterContagion(events, psych, s, t, prox, clock)
  /\ fn' = IF s \in DOMAIN psych /\ t \in DOMAIN psych
           THEN [op |-> "processContagion", source |-> s, target |-> t, proximity |-> prox,
                 now |-> clock, found |-> TRUE, sourceRow |-> psych[s], targetRow |-> psych[t],
                 bondFound |-> FindBond(s, t) # {},
                 bond |-> IF FindBond(s, t) # {} THEN CHOOSE b \in FindBond(s, t) : TRUE
                          ELSE NoBond,
                 before |-> psych, eventsBefore |-> events,
                 returned |-> ContagionStrength(s, t, BondStrength(s, t), prox)]
           ELSE [op |-> "processContagion", source |-> s, target |-> t, proximity |-> prox,
                 now |-> clock, found |-> FALSE, sourceRow |-> NullRow, targetRow |-> NullRow,
                 bondFound |-> FALSE, bond |-> NoBond,
                 before |-> psych, eventsBefore |-> events, returned |-> 0]
  /\ UNCHANGED <<clock, bonds, needs, sideEffects, calls, lastRead, batch>>
  /\ UNCHANGED <<worldVars, chamberVars, memoryVars>>

\* emotionChanges of updateEmotionsFromConversation
EMOTION_CHANGES ==
  [conversation_started |-> [emotion |-> "anticipation", intensity |-> 15,
                             needChanges |-> [relatedness |-> 5]],
   positive_exchange |-> [emotion |-> "joy", intensity |-> 20,
                          needChanges |-> [relatedness |-> 10, competence |-> 5]],
   negative_exchange |-> [emotion |-> "sadness", intensity |-> 15,
                          needChanges |-> [relatedness |-> 0 - 5]],
   conversation_ended |-> [emotion |-> "trust", intensity |-> 10,
                           needChanges |-> [relatedness |-> 15]],
   rejected_invite |-> [emotion |-> "sadness", intensity |-> 25,
                        needChanges |-> [relatedness |-> 0 - 10, autonomy |-> 0 - 5]]]

CRITICAL_NEED == 20

\* psychologicalNeeds after updateNeeds
AfterNeeds(nd, agent, needChanges, now) ==
  IF agent \notin DOMAIN nd THEN nd
  ELSE [nd EXCEPT ![agent] =
          [values |-> [n \in NeedNames |->
                         IF n \in DOMAIN needChanges
                         THEN Max2(0, Min2(100, nd[agent].values[n] + needChanges[n]))
                         ELSE nd[agent].values[n]],
           lastUpdated |-> now]]

\* updateNeeds also stamps the profile row
StampedByNeeds(db, agent, now) ==
  IF agent \in DOMAIN db THEN [db EXCEPT ![agent].updatedAt = now] ELSE db

\* and inserts one need_critical row into emotionalEvents for each need below 20
EventsAfterNeeds(ev, nd, agent) ==
  IF agent \notin DOMAIN nd THEN ev
  ELSE [ev EXCEPT !.emotional =
          @ + Cardinality({n \in NeedNames : nd[agent].values[n] < CRITICAL_NEED})]

\* a failed side call given up to the caller: the mutation fails as a whole
AfterSideCallSurfacing(st, call, throws) ==
  IF throws
  THEN [st EXCEPT !.psych = st.base.psych, !.needs = st.base.needs,
                  !.events = st.base.events, !.sideEffects = st.base.sideEffects,
                  !.calls = Append(@, [op |-> call, threw |-> TRUE]), !.threw = TRUE]
  ELSE [st EXCEPT !.sideEffects[call] = @ + 1,
                  !.calls = Append(@, [op |-> call, threw |-> FALSE])]

\* a side call inside its own try block: a throw is caught and logged, the handler
\* goes on; a call that returns has written its rows
AfterSideCall(st, call, throws) ==
  IF throws
  THEN [st EXCEPT !.calls = Append(@, [op |-> call, threw |-> TRUE])]
  ELSE [st EXCEPT !.sideEffects[call] = @ + 1,
                  !.calls = Append(@, [op |-> call, threw |-> FALSE])]

\* the handler from start to end; socialThrows and narrativeThrows say whether the
\* social-effects and the narrative call throw
updateEmotionsFromConversation(st, agentId, eventType, otherAgentId, now, socialThrows, narrativeThrows) ==
  LET change == EMOTION_CHANGES[eventType]
      Primary(s, call) == [s EXCEPT !.calls = Append(@, [op |-> call, threw |-> FALSE])]
      Trigger(s) ==
        Primary([s EXCEPT
                   !.psych = AfterTrigger(s.psych, agentId, change.emotion,
                                          change.intensity * Unit, now),
                   !.events = EventsAfterTrigger(s.events, s.psych, agentId,
                                                 change.intensity * Unit)],
                "triggerEmotion")
      Needs(s) ==
        Await(AfterNeeds(s.needs, agentId, change.needChanges, now),
              LAMBDA nd : Primary([s EXCEPT
                                     !.needs = nd,
                                     !.psych = StampedByNeeds(s.psych, agentId, now),
                                     !.events = EventsAfterNeeds(s.events, nd, agentId)],
                                  "updateNeeds"))
      Contagion(s) ==
        Primary([s EXCEPT
                   !.psych = AfterContagion(s.psych, agentId, otherAgentId,
                                            FULL_PROXIMITY, now),
                   !.events = EventsAfterContagion(s.events, s.psych, agentId, otherAgentId,
                                                   FULL_PROXIMITY, now)],
                "processContagion")
      Social(s) == AfterSideCall(s, "social", socialThrows)
      Narrative(s) == IF s.threw THEN s ELSE AfterSideCall(s, "narrative", narrativeThrows)
      Ended(s) == IF eventType = "conversation_ended"
                  THEN Await(Await(s, Social), Narrative)
                  ELSE s
      WithOther(s) == IF otherAgentId # "none"
                      THEN Await(Await(s, Contagion), Ended)
                      ELSE s
  IN IF eventType \notin DOMAIN EMOTION_CHANGES THEN st
     ELSE Await(Await(Await(st, Trigger), Needs), WithOther)

UpdateEmotionsFromConversation(agentId, eventType, otherAgentId, socialThrows, narrativeThrows) ==
  /\ NoPureCall
  /\ ops < MaxCalls
  /\ ops' = ops + 1
  /\ \E st \in {updateEmotionsFromConversation(
                   [psych |-> psych, needs |-> needs, events |-> events,
                    sideEffects |-> sideEffects, calls |-> <<>>, threw |-> FALSE,
                    base |-> [psych |-> psych, needs |-> needs, events |-> events,
                              sideEffects |-> sideEffects]],
                   agentId, eventType, otherAgentId, clock, socialThrows,
                   narrativeThrows)} :
       /\ psych' = st.psych
       /\ needs' = st.needs
       /\ events' = st.events
       /\ sideEffects' = st.sideEffects
       /\ fn' = [op |-> "updateEmotionsFromConversation", agent |-> agentId,
                 eventType |-> eventType, other |-> otherAgentId, seq |-> ops + 1,
                 calls |-> st.calls, threw |-> st.threw]
  /\ UNCHANGED <<clock, bonds, calls, lastRead, batch>>
  /\ UNCHANGED <<worldVars, chamberVars, memoryVars>>

\* the two queries: they write no table
CallGetEmotionalState(a) ==
  /\ NoPureCall
  /\ fn' = IF a \in DOMAIN psych
           THEN [op |-> "getEmotionalState", agent |-> a, now |-> clock,
                 returnedNull |-> FALSE, returned |-> EmotionalStateOf(psych[a], a, clock)]
           ELSE [op |-> "getEmotionalState", agent |-> a, now |-> clock,
                 returnedNull |-> TRUE, returned |-> NullState]
  /\ UNCHANGED <<emotionVars, worldVars, chamberVars, memoryVars>>

CallFindResonantChamber(a) ==
  /\ NoPureCall
  /\ \E r \in {findResonantChamber(psych, chambers, a, clock)} :
       fn' = [op |-> "findResonantChamber", agent |-> a, now |-> clock,
              returnedNull |-> r = 0, returned |-> r]
  /\ UNCHANGED <<emotionVars, worldVars, chamberVars, memoryVars>>

CallTick ==
  /\ NoPureCall
  /\ clock < MaxClock
  /\ clock' = clock + 1
  /\ UNCHANGED <<psych, bonds, needs, sideEffects, calls, events, lastRead, ops, batch>>
  /\ UNCHANGED <<probeVars, worldVars, chamberVars, memoryVars>>

\* <<agent, emotion, intensity>>; a3 has a profile row once it is initialized
CallTriggersIn ==
  {<<"a1", <<"joy", 20>>>>, <<"a1", <<"joy", -50>>>>, <<"a3", <<"disgust", 60>>>>}

\* <<source, target, proximity>>
CallContagionsIn ==
  {<<"a1", "a2", FULL_PROXIMITY>>, <<"a1", "a2", FULL_PROXIMITY \div 2>>,
   <<"a2", "a1", FULL_PROXIMITY>>, <<"a1", "a3", FULL_PROXIMITY>>,
   <<"a3", "a1", FULL_PROXIMITY>>}

\* ------------------------------------------------------------ specifications
Init == EmotionInit /\ ProbeInit /\ WorldInit /\ ChamberInit /\ MemoryInit

EmotionNext ==
  \/ \E p \in Procs, t \in TriggersIn : TriggerBegin(p, t[1], t[2][1], t[2][2])
  \/ \E p \in Procs : TriggerEnd(p)
  \/ \E p \in Procs, c \in ContagionsIn : ContagionBegin(p, c[1], c[2], FULL_PROXIMITY)
  \/ \E p \in Procs : ContagionEnd(p)
  \/ \E a \in ReadsIn : GetEmotionalState(a)
  \/ Tick

\* the emotion operations, overlapping two at a time
SpecEmotion == Init /\ [][EmotionNext]_vars

\* one caller's emotion operations on one agent, and direct calls of decayEmotions
DecayTriggersIn == {<<"joy", 0>>, <<"joy", 60>>}

\* a direct call reads no table and an operation reads no call's result: the direct
\* calls are made while the tables are as constructed, the operations while no
\* direct call has been made
TablesAsConstructed == ops = 0 /\ clock = 0
NothingCalled == fn = NoCall

DecayNext ==
  \/ \E t \in DecayTriggersIn : NothingCalled /\ TriggerBegin("p1", "a1", t[1], t[2])
  \/ NothingCalled /\ TriggerEnd("p1")
  \/ NothingCalled /\ GetEmotionalState("a1")
  \/ NothingCalled /\ Tick
  \/ \E em \in StatesIn, n \in 0..MaxMinutes, r \in RegulationsIn :
       TablesAsConstructed /\ CallDecayEmotions(em, n, r)
  \/ \E m \in 0..MaxMinutes : CallDecayEmotionsAgain(m)

SpecDecay == Init /\ [][DecayNext]_vars

StrengthNext ==
  \/ \E a \in EmpathiesIn, b \in EmpathiesIn, bond \in BondsIn, prox \in ProximitiesIn :
       CallContagionStrength(a, b, bond, prox)
  \/ \E t \in BlendStatesIn, s \in BlendStatesIn, k \in StrengthsIn :
       CallApplyContagion(t, s, k)
  \/ \E t \in StatesIn, s \in StatesIn : CallEmotionalSimilarity(t, s)

SpecStrength == Init /\ [][StrengthNext]_vars

CallsNext ==
  \/ InitializeAgentPsychology("a3")
  \/ \E t \in CallTriggersIn : CallTriggerEmotion(t[1], t[2][1], t[2][2])
  \/ \E c \in CallContagionsIn : CallProcessContagion(c[1], c[2], c[3])
  \/ CallTick
  \/ \E a \in EmpathiesIn, b \in EmpathiesIn, bond \in BondsIn, prox \in ProximitiesIn :
       TablesAsConstructed /\ CallContagionStrength(a, b, bond, prox)
  \/ \E t \in BlendStatesIn, u \in BlendStatesIn, k \in StrengthsIn :
       TablesAsConstructed /\ CallApplyContagion(t, u, k)

\* the emotion mutations and queries, one at a time
SpecCalls == Init /\ [][CallsNext]_vars

\* calls that name an agent before and after its profile is inserted
AbsentTriggersIn == {<<"a3", <<"disgust", 60>>>>}
AbsentContagionsIn == {<<"a1", "a3", FULL_PROXIMITY>>, <<"a3", "a1", FULL_PROXIMITY>>}
AbsentReadsIn == {"a3"}

AbsenceNext ==
  \/ InitializeAgentPsychology("a3")
  \/ \E t \in AbsentTriggersIn : CallTriggerEmotion(t[1], t[2][1], t[2][2])
  \/ \E c \in AbsentContagionsIn : CallProcessContagion(c[1], c[2], c[3])
  \/ \E a \in AbsentReadsIn : CallGetEmotionalState(a)
  \/ \E a \in AbsentReadsIn : CallFindResonantChamber(a)
  \/ CallTick

\* the emotion mutations and queries on a world where one agent has no profile yet
SpecAbsence == Init /\ [][AbsenceNext]_vars

\* <<agentId, eventType, otherAgentId>>: the end of a conversation with and without
\* the other agent named
ConversationsIn ==
  {<<"a1", "conversation_ended", "a2">>, <<"a1", "conversation_ended", "none">>}

\* one of at most limit operations
UpdateEmotionsFromConversationWithin(limit, agentId, eventType, otherAgentId, socialThrows, narrativeThrows) ==
  /\ ops < limit
  /\ UpdateEmotionsFromConversation(agentId, eventType, otherAgentId, socialThrows,
                                    narrativeThrows)

\* the tiles the players stand on: a1 and a2 in the first chamber, a3 and a4 in
\* the third
PlayersInChambers ==
  [a \in Players |->
     IF a = "a1" THEN <<ChamberArea(1).x, ChamberArea(1).y>>
     ELSE IF a = "a2" THEN <<ChamberArea(1).x + 1, ChamberArea(1).y>>
     ELSE IF a = "a3" THEN <<ChamberArea(3).x, ChamberArea(3).y>>
     ELSE <<ChamberArea(3).x + 1, ChamberArea(3).y>>]

\* a world whose three agents have their profiles and whose chamber rows list the
\* players standing in them
WorldWithPlayersInChambers ==
  /\ clock = 0
  /\ psych = [a \in Agents |-> initializeAgentPsychology(a, 0)]
  /\ bonds = {initializeEmotionalBond("a1", "a2")}
  /\ calls = [q \in Procs |-> Idle]
  /\ events = [emotional |-> 0, contagion |-> 0]
  /\ lastRead = [agent |-> "none", found |-> FALSE, seq |-> 0, row |-> NullRow, state |-> NullState]
  /\ ops = 0
  /\ batch = [base |-> [a \in Agents |-> initializeAgentPsychology(a, 0)], calls |-> <<>>]
  /\ needs = [a \in Agents |-> initializeNeeds(a, 0)]
  /\ sideEffects = NoSideEffects
  /\ ProbeInit /\ WorldInit /\ MemoryInit
  /\ positions = PlayersInChambers
  /\ chambers =
       [k \in ChamberIds |->
          LET occupants == OccupantsFound(initializeResonanceChambers(0)[k], ChamberArea(k),
                                          PlayersInChambers)
          IN [initializeResonanceChambers(0)[k] EXCEPT
                !.currentOccupants = occupants,
                !.activeResonance = ResonanceRequires(occupants)]]
  /\ resonance = NoResonance
  /\ chamberOps = 0

\* which of the calls of one applyResonanceEffects throw: none, or the first
\* triggerEmotion and the first processContagion
ThrowsIn == {{}, {1, 2}}

\* <<socialThrows, narrativeThrows>>
SideThrowsIn == {<<FALSE, FALSE>>, <<TRUE, FALSE>>, <<FALSE, TRUE>>}

BestEffortNext ==
  \/ \E c \in ConversationsIn, t \in SideThrowsIn :
       UpdateEmotionsFromConversationWithin(MaxConversations, c[1], c[2], c[3], t[1], t[2])
  \/ \E throws \in ThrowsIn : ApplyResonanceEffectsThrowing(throws)

\* the handlers whose side calls are wrapped in try blocks
SpecBestEffort == WorldWithPlayersInChambers /\ [][BestEffortNext]_vars

\* a world whose agents have no profile yet: initializeWorldEmotions has not run
WorldBeforeEmotions ==
  /\ clock = 0
  /\ psych = [a \in {} |-> NullRow]
  /\ bonds = {}
  /\ calls = [q \in Procs |-> Idle]
  /\ events = [emotional |-> 0, contagion |-> 0]
  /\ lastRead = [agent |-> "none", found |-> FALSE, seq |-> 0, row |-> NullRow, state |-> NullState]
  /\ ops = 0
  /\ batch = [base |-> [a \in {} |-> NullRow], calls |-> <<>>]
  /\ needs = [a \in {} |-> NullNeeds]
  /\ sideEffects = NoSideEffects
  /\ ProbeInit /\ WorldInit /\ ChamberInit /\ MemoryInit

\* profiles are inserted in the order of world.agents
NextToInitialize(a) ==
  \E i \in 1..Len(AgentOrder) :
    /\ AgentOrder[i] = a
    /\ a \notin DOMAIN psych
    /\ \A j \in 1..(i - 1) : AgentOrder[j] \in DOMAIN psych

AtmosphereTriggersIn == {<<"a2", <<"joy", 60>>>>}

AtmosphereNext ==
  \/ \E a \in Agents : NextToInitialize(a) /\ InitializeAgentPsychology(a)
  \/ \E t \in AtmosphereTriggersIn : TriggerEmotion(t[1], t[2][1], t[2][2])
  \/ CalculateWorldAtmosphere
  \/ CallTick

\* the aggregation on a world that fills with agents
SpecAtmosphere == WorldBeforeEmotions /\ [][AtmosphereNext]_vars

\* the aggregation on a world whose second agent gets a varied baseline: as preset,
\* with joy and trust five higher each, and with joy 4.996 and trust five higher
TrendVariationsIn ==
  [a1 |-> {NoVariation},
   a2 |-> {NoVariation,
           [NoVariation EXCEPT !["joy"] = 5 * Unit, !["trust"] = 5 * Unit],
           [NoVariation EXCEPT !["joy"] = 5 * Unit - 4, !["trust"] = 5 * Unit]}]
TrendTriggersIn == {<<"a1", <<"joy", 60>>>>, <<"a1", <<"sadness", 60>>>>}

TrendNext ==
  \/ \E a \in {"a1", "a2"} : \E d \in TrendVariationsIn[a] :
       NextToInitialize(a) /\ InitializeAgentPsychologyVaried(a, d)
  \/ \E t \in TrendTriggersIn : TriggerEmotion(t[1], t[2][1], t[2][2])
  \/ CalculateWorldAtmosphere

SpecTrend == WorldBeforeEmotions /\ [][TrendNext]_vars

\* memories: a tagged one of each agent (thresholds 40 and 20) and one of a
\* cinematic moment (joy and anger 100, significance 80: intensity 50, threshold
\* 20); the states asked with: the baseline of the first agent, in which its
\* memories resonate, and every channel full, in which its tagged one does not;
\* the limits: left out, 0, 1
MemoryTagsIn == {<<"a1", 1, "joy", 60 * Unit, 50>>, <<"a2", 3, "fear", 80 * Unit, 0 - 20>>}
MomentsIn ==
  {<<"a1", 2, [joy |-> 100 * Unit, sadness |-> 0, anger |-> 100 * Unit, fear |-> 0], 80 * Unit>>}
\* each agent triggers the memories it has
MemoryTriggersIn == {<<"a1", 1>>, <<"a1", 2>>, <<"a2", 3>>}
MemoryStatesIn == {EmotionalBaseline("a1"), [e \in Emotions |-> 100 * Unit]}
LimitsIn == {<<>>, <<0>>, <<1>>}

MemoryNext ==
  \/ \E t \in MemoryTagsIn : TagMemoryWithEmotion(t[1], t[2], t[3], t[4], t[5])
  \/ \E t \in MomentsIn : DetectCinematicMoment(t[1], t[2], t[3], t[4])
  \/ \E t \in MemoryTriggersIn : TriggerMemoryResonance(t[1], t[2])
  \/ \E a \in {"a1", "a2"} : \E st \in MemoryStatesIn : \E l \in LimitsIn :
       CallFindResonantMemories(a, st, l)

SpecMemory == Init /\ [][MemoryNext]_vars

\* pairs in both orders and a pair that shares an agent with them; changes that
\* drive every field to both ends of its range, and the call with no change
BondPairsIn == {<<"a1", "a2">>, <<"a2", "a1">>, <<"a1", "a3">>}
BondChangesIn ==
  {NoBondChange,
   [affection |-> 60, trust |-> 0 - 30, respect |-> 0, rivalry |-> 90],
   [affection |-> 0 - 50, trust |-> 50, respect |-> 80, rivalry |-> 0 - 10]}

BondNext ==
  \/ \E p \in BondPairsIn : InitializeEmotionalBond(p[1], p[2])
  \/ \E p \in BondPairsIn : \E c \in BondChangesIn : UpdateEmotionalBond(p[1], p[2], c)

SpecBonds == WorldBeforeEmotions /\ [][BondNext]_vars

\* seekers: the two agents with a profile and one without; a tile of the first
\* chamber and a tile of none; triggers that make anger dominant with an arousal
\* above 70, leave the arousal at 70 exactly, and make an emotion dominant that
\* no chamber resonates with; the stored table, none, and the stored table with
\* the first or the third chamber full
SeekPositionsIn ==
  {<<ChamberArea(1).x, ChamberArea(1).y>>,
   <<ChamberArea(1).x + ChamberArea(1).width, ChamberArea(1).y>>}
SeekTriggersIn == {<<"a1", "anger", 100>>, <<"a1", "joy", 100>>, <<"a2", "surprise", 100>>}
SeekTablesIn == {0, 1, 3, Len(CHAMBER_TEMPLATES) + 1}

\* a query is the last thing a run does
NothingSought == fn.op # "findResonantChamber"

SeekNext ==
  \/ \E a \in {"a1", "a2"}, to \in SeekPositionsIn : NothingSought /\ MovePlayer(a, to)
  \/ NothingSought /\ UpdateChamberOccupancy
  \/ NothingSought /\ ApplyResonanceEffects
  \/ \E t \in SeekTriggersIn :
       NothingSought /\ worldOps < MaxSeekTriggers /\ TriggerEmotion(t[1], t[2], t[3])
  \/ \E a \in Agents, kind \in SeekTablesIn : CallFindResonantChamberOn(a, kind)

SpecSeek == Init /\ [][SeekNext]_vars

\* intensities at and around the minimums the categories require, with valences
\* and arousals on and beside the ends of the windows
MoodEmotionsIn ==
  LET none == [e \in Emotions |-> 0]
  IN {[none EXCEPT !["joy"] = j * Unit, !["trust"] = t * Unit, !["anticipation"] = n * Unit] :
        j \in {0, 40, 70}, t \in {0, 30}, n \in {0, 50}}
     \cup {[none EXCEPT !["sadness"] = 60 * Unit], [none EXCEPT !["anger"] = 50 * Unit],
           [none EXCEPT !["surprise"] = 60 * Unit],
           [none EXCEPT !["fear"] = 50 * Unit, !["anticipation"] = 30 * Unit],
           [none EXCEPT !["disgust"] = 40 * Unit, !["fear"] = 30 * Unit],
           [none EXCEPT !["joy"] = 70 * Unit - 1, !["anticipation"] = 50 * Unit],
           [e \in Emotions |-> 100 * Unit]}
MoodValencesIn == {-100 * Unit, -40 * Unit, -30 * Unit - 1, -20 * Unit, 0, 20 * Unit, 20 * Unit + 1, 60 * Unit}
MoodArousalsIn == {0, 20 * Unit, 30 * Unit, 30 * Unit + 1, 50 * Unit + 1, 60 * Unit, 100 * Unit}

\* triggers after which no prototype that requires an emotion scores above 50,
\* after which one scores 85, and after which one scores 100
MoodTriggersIn ==
  {<<"a1", "sadness", 100>>, <<"a1", "joy", 100>>, <<"a2", "surprise", 30>>}
MoodContagionsIn == {<<"a1", "a2">>, <<"a2", "a1">>}

\* a direct call is made while the tables are as constructed, and a direct call
\* or a query is the last step of its run: neither writes a table
NoMoodCalled == fn.op \notin {"calculateMood", "getEmotionalState"}

MoodNext ==
  \/ \E em \in MoodEmotionsIn, valence \in MoodValencesIn, arousal \in MoodArousalsIn :
       TablesAsConstructed /\ NoMoodCalled /\ CallCalculateMood(em, valence, arousal)
  \/ \E t \in MoodTriggersIn : NoMoodCalled /\ CallTriggerEmotion(t[1], t[2], t[3])
  \/ \E c \in MoodContagionsIn : NoMoodCalled /\ CallProcessContagion(c[1], c[2], FULL_PROXIMITY)
  \/ \E a \in Agents : NoMoodCalled /\ CallGetEmotionalState(a)
  \/ NoMoodCalled /\ CallTick

SpecMood == Init /\ [][MoodNext]_vars

\* the world operations, one at a time, with emotion writes in between
SpecWeather == Init /\ [][WeatherNext]_vars

\* a long run of the weather: transitions every ten minutes, drawn natural or
\* emotional, after at most one aggregation
HistoryRollsIn == {0, 30}
HistoryDurationsIn == {10}
HistoryElapseIn == {10}
HistoryPicksIn == {1, 2}

HistoryNext ==
  \/ NothingCalled /\ CalculateWorldAtmosphere
  \/ \E roll \in HistoryRollsIn, pick \in HistoryPicksIn, minutes \in HistoryDurationsIn :
       UpdateWorldWeatherWithin(MaxHistoryOps, roll, pick, minutes)
  \/ \E d \in HistoryElapseIn : ElapseUntil(MaxHistoryClock, d)

SpecHistory == Init /\ [][HistoryNext]_vars

\* the weather over four transitions and more, every transition of every list
\* drawn, after a trigger that makes sadness the collective emotion or none;
\* direct calls of determineEmotionalWeather for every emotion
ForecastRollsIn == {0, 30}
ForecastPicksIn == 1..4
ForecastDurationsIn == {10}
ForecastElapseIn == {15}

\* a direct call is the last step of its run
NoWeatherCalled == fn.op # "determineEmotionalWeather"

ForecastNext ==
  \/ NoWeatherCalled /\ worldOps = 0 /\ clock = 0 /\ TriggerEmotion("a1", "sadness", 60)
  \/ NoWeatherCalled /\ CalculateWorldAtmosphere
  \/ \E roll \in ForecastRollsIn, pick \in ForecastPicksIn, minutes \in ForecastDurationsIn :
       NoWeatherCalled /\ UpdateWorldWeatherWithin(MaxForecastOps, roll, pick, minutes)
  \/ \E d \in ForecastElapseIn : NoWeatherCalled /\ ElapseUntil(MaxHistoryClock, d)
  \/ \E e \in Emotions \cup {"neutral"}, i \in WeatherIntensitiesIn, v \in ValencesIn,
        a \in ArousalsIn :
       WorldAsConstructed /\ CallDetermineEmotionalWeather(e, i, v, a)

SpecForecast == Init /\ [][ForecastNext]_vars

\* the world tick, scheduled every five minutes or less often: roll, pick and draw
\* are the three Math.random() draws of its updateWorldWeather
TickRollsIn == {0, 30}
TickPicksIn == {1, 3}
TickDrawsIn == {0, Unit \div 2, Unit - 1}
TickElapseIn == {5}

ScheduledTick == \E roll \in TickRollsIn, pick \in TickPicksIn, draw \in TickDrawsIn :
                   WorldTick(roll, pick, draw)
TimePasses == \E d \in TickElapseIn : ElapseUntil(MaxTickClock, d)

TickNext ==
  \/ ScheduledTick
  \/ TimePasses

SpecTick == Init /\ [][TickNext]_vars

\* WF_vars(ScheduledTick) written out: a tick can run exactly when it is due, and the
\* steps that raise worldOps are the ticks
TickKeepsRunning ==
  []<>(~(NoCallInFlight /\ TickDue)) \/ []<><<worldOps' = worldOps + 1>>_vars

\* the clock keeps advancing and a tick that is due is run
SpecTickFair == Init /\ [][TickNext]_vars /\ WF_vars(TimePasses) /\ TickKeepsRunning

\* the social tick's two steps, one at a time, with players moving in between
SpecChamber == Init /\ [][ChamberNext]_vars

Em(a) == psych[a].emotionalState.emotions

\* ------------------------------------------------- history of overlapping calls
WrittenAgent(c) == IF c.op = "trigger" THEN c.agent ELSE c.target

\* the table after call c has run alone, start to end, on table db
ApplyCall(db, c) ==
  IF c.op = "trigger"
  THEN [db EXCEPT ![c.agent] =
          [emotionalState |-> TriggerState(db[c.agent], c.agent, c.emotion, c.intensity, c.now),
           updatedAt |-> c.now]]
  ELSE [db EXCEPT ![c.target] =
          [emotionalState |->
             MakeState(ContagionEmotions(db[c.source], db[c.target], c.source, c.target,
                                         c.bond, c.proximity, c.now).new, c.now),
           updatedAt |-> c.now]]

\* a group of exactly two overlapping calls has ended
PairDone == NoCallInFlight /\ Len(batch.calls) = 2
OneAfterAnother ==
  {ApplyCall(ApplyCall(batch.base, batch.calls[1]), batch.calls[2]),
   ApplyCall(ApplyCall(batch.base, batch.calls[2]), batch.calls[1])}
Crossing(c, d) ==
  /\ c.op = "contagion" /\ d.op = "contagion"
  /\ c.source = d.target /\ d.source = c.target

\* C1: every stored intensity of every agent lies within [0,100]
C1_IntensitiesInRange ==
  \A a \in DOMAIN psych : \A e \in Emotions : Em(a)[e] >= 0 /\ Em(a)[e] <= 100 * Unit

\* C2: a call that completes writes the state it computed from the row it read
\* when it began, whatever has been written to that agent in between
C2_WriteFromSnapshot ==
  [][\A p \in Procs :
       /\ (calls[p].op = "trigger" /\ calls'[p].op = "idle") =>
            psych'[calls[p].agent].emotionalState =
              TriggerState(calls[p].snap, calls[p].agent, calls[p].emotion,
                           calls[p].intensity, calls[p].now)
       /\ (calls[p].op = "contagion" /\ calls'[p].op = "idle") =>
            psych'[calls[p].target].emotionalState =
              MakeState(ContagionEmotions(calls[p].snapSource, calls[p].snapTarget,
                                          calls[p].source, calls[p].target, calls[p].bond,
                                          calls[p].proximity, calls[p].now).new,
                        calls[p].now)]_vars

\* C2 witness: two overlapping calls on one agent have ended and the stored row is
\* what one of them alone would have left, not what either order of both leaves
C2_LostUpdate ==
  /\ PairDone
  /\ WrittenAgent(batch.calls[1]) = WrittenAgent(batch.calls[2])
  /\ psych \notin OneAfterAnother
  /\ \/ psych = ApplyCall(batch.base, batch.calls[1])
     \/ psych = ApplyCall(batch.base, batch.calls[2])

\* a step that ends a call leaves every row but the written one as it was
FrameOfWrites ==
  \A p \in Procs :
    (calls[p].op # "idle" /\ calls'[p].op = "idle") =>
       \A b \in DOMAIN psych : b # WrittenAgent(calls[p]) => psych'[b] = psych[b]

\* C6 as stated: writes to distinct agents leave the other rows alone, and two
\* overlapping writes to distinct agents end as some one-after-another run ends
C6_DistinctAgentsSerializable ==
  /\ [][FrameOfWrites]_vars
  /\ [](PairDone /\ WrittenAgent(batch.calls[1]) # WrittenAgent(batch.calls[2])
          => psych \in OneAfterAnother)

\* C6 amended: the same, except for two processContagion calls that cross
C6_DistinctAgentsSerializableUnlessCrossing ==
  /\ [][FrameOfWrites]_vars
  /\ [](PairDone /\ WrittenAgent(batch.calls[1]) # WrittenAgent(batch.calls[2])
          /\ ~Crossing(batch.calls[1], batch.calls[2])
          => psych \in OneAfterAnother)

\* C6 witness: a processContagion overlapped a triggerEmotion on its source,
\* both ended, and only the target row and the triggered row differ from before
C6_OverlapOnDistinctAgents ==
  /\ PairDone
  /\ \E i \in 1..2 :
       /\ batch.calls[i].op = "contagion"
       /\ batch.calls[3 - i].op = "trigger"
       /\ batch.calls[3 - i].agent = batch.calls[i].source
       /\ batch.calls[i].target # batch.calls[i].source
       /\ psych[batch.calls[i].target] # batch.base[batch.calls[i].target]
       /\ psych[batch.calls[i].source] # batch.base[batch.calls[i].source]
  /\ psych \in OneAfterAnother

\* C7: a getEmotionalState changes no table, and returns the stored intensities
\* decayed to the time of the read with the derived fields recomputed
C7_ReadOnlyProjection ==
  [][lastRead' # lastRead =>
       /\ psych' = psych /\ bonds' = bonds /\ events' = events /\ calls' = calls
       /\ lastRead'.found = (lastRead'.agent \in DOMAIN psych)
       /\ lastRead'.found =>
            LET row == psych[lastRead'.agent]
                em == decayEmotions(row.emotionalState.emotions,
                                    clock - row.emotionalState.lastUpdated,
                                    Regulation(lastRead'.agent))
            IN lastRead'.state = MakeState(em, clock)]_vars

\* C7 witness: a read returned decayed intensities that differ from the stored
\* ones, and the stored row is still the row that was read
C7_ReadDecayedRowKept ==
  /\ lastRead.found
  /\ psych[lastRead.agent] = lastRead.row
  /\ lastRead.state.lastUpdated > lastRead.row.emotionalState.lastUpdated
  /\ lastRead.state.emotions # lastRead.row.emotionalState.emotions

\* ------------------------------------------------------------------ weather
\* the snapshot the last transition consulted
SnapshotUsed == worldAtmosphere[weatherResult.snapshot]
BelowThreshold(a) == a.intensity < EMOTION_TO_WEATHER[a.dominantEmotion].threshold * Unit

\* C3: a transition on the emotional path whose snapshot's intensity is below the
\* threshold of its dominant emotion is not emotion-driven: the weather becomes
\* partly_cloudy, the appended recentWeather entry has emotionalInfluence false
\* and the weather_change event carries no triggering emotion
C3_BelowThresholdNotDriven ==
  (weatherResult.path = "emotional" /\ BelowThreshold(SnapshotUsed)) =>
     /\ weatherResult.weatherChanged
     /\ weatherResult.newWeather = "partly_cloudy"
     /\ ~weatherResult.emotionallyDriven
     /\ weatherResult.triggeringEmotion = "undefined"
     /\ worldWeather.currentWeather = "partly_cloudy"
     /\ LastOf(worldWeather.recentWeather).weather = "partly_cloudy"
     /\ ~LastOf(worldWeather.recentWeather).emotionalInfluence
     /\ LastOf(worldEvents).eventType = "weather_change"
     /\ ~LastOf(worldEvents).emotionallyDriven
     /\ LastOf(worldEvents).triggeringEmotion = "undefined"

\* C3 witness: a transition took the emotional path on a snapshot whose dominant
\* emotion, joy, had decayed below its threshold
C3_EmotionalPathBelowThreshold ==
  /\ weatherResult.path = "emotional"
  /\ weatherResult.weatherChanged
  /\ BelowThreshold(SnapshotUsed)
  /\ SnapshotUsed.dominantEmotion = "joy"
  /\ SnapshotUsed.intensity > 0
  /\ Len(worldWeather.recentWeather) >= 2

\* ----------------------------------------------------------------- chambers
ResonanceStep == resonance'.seq # resonance.seq
OccupancyStep == chamberOps' # chamberOps /\ resonance' = resonance
CallsFor(k) == {i \in 1..Len(resonance.calls) : resonance.calls[i].chamber = k}

\* C4: a chamber found with exactly one occupant is not active, and the next
\* applyResonanceEffects calls no triggerEmotion and no processContagion for it and
\* leaves its row, dominantEmotion and resonanceIntensity included, as it was
C4_SingleOccupantNoResonance ==
  /\ [](\A k \in ChamberIds :
          Len(chambers[k].currentOccupants) = 1 => ~chambers[k].activeResonance)
  /\ [][ResonanceStep =>
          \A k \in ChamberIds :
            Len(chambers[k].currentOccupants) = 1 =>
              /\ chambers'[k] = chambers[k]
              /\ k \notin resonance'.patched
              /\ \A i \in 1..Len(resonance'.calls) : resonance'.calls[i].chamber # k]_vars

\* C4 witness: one applyResonanceEffects met a chamber with one occupant, which
\* it left alone, and a chamber with two, which it made resonate
C4_OneAloneOneResonating ==
  /\ resonance.seq > 0
  /\ \E k, j \in ChamberIds :
       /\ Len(resonance.before[k].currentOccupants) = 1
       /\ chambers[k] = resonance.before[k]
       /\ CallsFor(k) = {}
       /\ Len(resonance.before[j].currentOccupants) = 2
       /\ j \in resonance.patched
       /\ CallsFor(j) # {}

InsideNow(k) == {a \in Players : InArea(positions[a], ChamberArea(k))}
Listed(occupants) == {occupants[i] : i \in 1..Len(occupants)}

\* C5: activeResonance is always (number of currentOccupants >= 2), and each
\* updateChamberOccupancy lists, once each, exactly the agents whose player is
\* inside the rectangle then, whatever the row held before
C5_OccupancyRecomputed ==
  /\ [](\A k \in ChamberIds :
          chambers[k].activeResonance = (Len(chambers[k].currentOccupants) >= 2))
  /\ [][OccupancyStep =>
          \A k \in ChamberIds :
            /\ Listed(chambers'[k].currentOccupants) = InsideNow(k)
            /\ Len(chambers'[k].currentOccupants) = Cardinality(InsideNow(k))]_vars

\* C5 witness: a chamber that resonated with two occupants at the last
\* applyResonanceEffects now lists one and is inactive
C5_ActiveThenInactive ==
  \E k \in ChamberIds :
    /\ Len(resonance.before[k].currentOccupants) = 2
    /\ resonance.before[k].activeResonance
    /\ k \in resonance.patched
    /\ chambers[k].dominantEmotion # "undefined"
    /\ Len(chambers[k].currentOccupants) = 1
    /\ ~chambers[k].activeResonance

\* -------------------------------------------------------------------- decay
\* five thousandths of a point: what the roundings of the fixed point add up to
Tolerance == Unit \div 200
NearEm(x, y) == \A e \in Emotions : Abs(x[e] - y[e]) <= Tolerance

\* a read made at the timestamp of the row it read
ReadAtWriteTime ==
  lastRead.found /\ lastRead.state.lastUpdated = lastRead.row.emotionalState.lastUpdated

\* C8: decayEmotions over 0 minutes returns the intensities it was given, for every
\* emotionalRegulation, and a getEmotionalState at the timestamp of the last write
\* returns the stored intensities
C8_ZeroMinutesIdentity ==
  /\ (fn.op = "decayEmotions" /\ fn.minutes = 0) => fn.out = fn.emotions
  /\ ReadAtWriteTime => lastRead.state.emotions = lastRead.row.emotionalState.emotions

\* C8 witness: a read at the timestamp of a triggerEmotion that wrote after time
\* had passed returned the intensities that call stored
C8_ReadRightAfterWrite ==
  /\ ReadAtWriteTime
  /\ lastRead.row.emotionalState.lastUpdated > 0
  /\ lastRead.row = psych[lastRead.agent]
  /\ lastRead.state.emotions["joy"] > 0

\* the single call of the current group is a zero-intensity triggerEmotion, ended
TouchDone ==
  /\ NoCallInFlight
  /\ Len(batch.calls) = 1
  /\ batch.calls[1].op = "trigger"
  /\ batch.calls[1].intensity = 0

\* the row is what a zero-intensity triggerEmotion writes over the row ref
IsTouchOf(row, ref, agent) ==
  /\ row.emotionalState.lastUpdated >= ref.emotionalState.lastUpdated
  /\ row.emotionalState =
       TriggerState(ref, agent, "joy", 0, row.emotionalState.lastUpdated)

\* rows known to have been stored for the agent: the constructed one, the last one read
KnownRows(a) ==
  {initializeAgentPsychology(a, 0)} \cup (IF lastRead.found /\ lastRead.agent = a
                                          THEN {lastRead.row} ELSE {})

\* C9: decaying by n and then by m minutes gives what decaying once by n+m gives,
\* within Tolerance; a read after a zero-intensity triggerEmotion returns what a
\* read of the row before it would, and a triggerEmotion after one stores what it
\* would have stored over the row before it
C9_DecayComposes ==
  /\ fn.op = "decayEmotionsAgain" =>
       NearEm(fn.out, decayEmotions(fn.emotions, fn.first + fn.minutes, fn.regulation))
  /\ (TouchDone /\ lastRead.found /\ lastRead.agent = batch.calls[1].agent
        /\ lastRead.row = ApplyCall(batch.base, batch.calls[1])[lastRead.agent]) =>
       NearEm(lastRead.state.emotions,
              EmotionalStateOf(batch.base[lastRead.agent], lastRead.agent,
                               lastRead.state.lastUpdated).emotions)
  /\ (NoCallInFlight /\ Len(batch.calls) = 1 /\ batch.calls[1].op = "trigger"
        /\ psych = ApplyCall(batch.base, batch.calls[1])) =>
       LET c == batch.calls[1]
       IN \A ref \in KnownRows(c.agent) :
            IsTouchOf(batch.base[c.agent], ref, c.agent) =>
              NearEm(psych[c.agent].emotionalState.emotions,
                     TriggerState(ref, c.agent, c.emotion, c.intensity, c.now).emotions)

\* C9 witness: a zero-intensity triggerEmotion stored decayed intensities at an
\* intermediate time, and a later read returned intensities decayed further
C9_TouchThenLaterRead ==
  /\ TouchDone
  /\ lastRead.found /\ lastRead.agent = batch.calls[1].agent
  /\ lastRead.row = ApplyCall(batch.base, batch.calls[1])[lastRead.agent]
  /\ batch.calls[1].now > batch.base[lastRead.agent].emotionalState.lastUpdated
  /\ lastRead.state.lastUpdated > batch.calls[1].now
  /\ lastRead.state.emotions # lastRead.row.emotionalState.emotions

\* C10 as stated: calculateContagionStrength gives the same result with its two
\* empathy arguments exchanged, and its result lies in [0,1]
C10_SymmetricWithinUnitRange ==
  fn.op = "calculateContagionStrength" =>
    /\ fn.out = calculateContagionStrength(fn.targetEmpathy, fn.sourceEmpathy,
                                           fn.relationshipBond, fn.proximity)
    /\ fn.out >= 0
    /\ fn.out <= RateOne

\* ---------------------------------------------------------------- contagion
InRange(em) == \A e \in Emotions : em[e] >= 0 /\ em[e] <= 100 * Unit
Clamped(em) == [e \in Emotions |-> Clamp(0, 100 * Unit, em[e])]

\* C11: applyEmotionalContagion with strength 0 returns each target intensity
\* clamped to [0,100], which is the target unchanged when its intensities lie in
\* [0,100]; with strength 1 it returns each source intensity clamped to [0,100];
\* and a channel of the result is fixed by that channel of target and source alone
C11_BlendEndpoints ==
  fn.op = "applyEmotionalContagion" =>
    /\ fn.strength = 0 => fn.out = Clamped(fn.target)
    /\ (fn.strength = 0 /\ InRange(fn.target)) => fn.out = fn.target
    /\ fn.strength = RateOne => fn.out = Clamped(fn.source)
    /\ \A e \in Emotions :
         fn.out[e] = applyEmotionalContagion([f \in Emotions |-> fn.target[e]],
                                             [f \in Emotions |-> fn.source[e]],
                                             fn.strength)[e]

\* C11 witness: a blend of strength 1 between two records that differ in every
\* channel returned the source's intensities
C11_FullStrengthCopiesSource ==
  /\ fn.op = "applyEmotionalContagion"
  /\ fn.strength = RateOne
  /\ InRange(fn.source)
  /\ \A e \in Emotions : fn.target[e] # fn.source[e] /\ fn.target[e] > 0
  /\ fn.out = fn.source

\* ------------------------------------------------------------- triggerEmotion
\* the last triggerEmotion found its agent's row and ran at that row's timestamp
TriggeredAtWriteTime ==
  fn.op = "triggerEmotion" /\ fn.found /\ fn.now = fn.row.emotionalState.lastUpdated

\* C12: a triggerEmotion(agent, e, x) with 0 minutes elapsed stores
\* min(100, old(e) + x * m) in channel e, m being the personality modifier, and the
\* old values in the other seven; a call with x of one point or more stores a value
\* above the old one while the old one is below 100, and 100 when it is 100
C12_AddsModulatedIntensity ==
  TriggeredAtWriteTime =>
    LET old == fn.row.emotionalState.emotions
        new == psych[fn.agent].emotionalState.emotions
        m == getPersonalityEmotionModifier(fn.emotion, Personality(fn.agent))
    IN /\ new[fn.emotion] = Min2(100 * Unit, old[fn.emotion] + (fn.intensity * m) \div Unit)
       /\ \A e \in Emotions \ {fn.emotion} : new[e] = old[e]
       /\ fn.returned = psych[fn.agent].emotionalState
       /\ (old[fn.emotion] = 25 * Unit /\ fn.intensity = 60 * Unit /\ m = Unit) =>
            new[fn.emotion] = 85 * Unit
       /\ (fn.intensity >= Unit /\ old[fn.emotion] < 100 * Unit) => new[fn.emotion] > old[fn.emotion]
       /\ (fn.intensity >= Unit /\ old[fn.emotion] = 100 * Unit) => new[fn.emotion] = 100 * Unit

\* C12 witness: three equal calls in a row, made at one time: the first raised the
\* channel, the second raised it to 100, the third left it at 100
C12_RepeatedUntilFull ==
  /\ TriggeredAtWriteTime
  /\ fn.intensity > 0
  /\ Len(fn.values) = 3
  /\ fn.values[1] < fn.values[2]
  /\ fn.values[2] = 100 * Unit
  /\ fn.values[3] = 100 * Unit

SadnessDrove ==
  /\ weatherResult.path = "emotional"
  /\ SnapshotUsed.dominantEmotion = "sadness"
  /\ SnapshotUsed.intensity >= 55 * Unit
SadnessCalled ==
  /\ fn.op = "determineEmotionalWeather"
  /\ fn.dominantEmotion = "sadness"
  /\ fn.intensity >= 55 * Unit
RainOrLight(arousal) == IF arousal < 30 * Unit THEN "light_rain" ELSE "rain"
RainByArousal(arousal) ==
  IF arousal > 70 * Unit THEN "storm"
  ELSE IF arousal < 30 * Unit THEN "light_rain"
  ELSE "rain"
RecordedAsDriven ==
  /\ weatherResult.weatherChanged
  /\ weatherResult.emotionallyDriven
  /\ weatherResult.triggeringEmotion = "sadness"
  /\ LastOf(worldWeather.recentWeather).emotionalInfluence
  /\ LastOf(worldEvents).eventType = "weather_change"
  /\ LastOf(worldEvents).emotionallyDriven
  /\ LastOf(worldEvents).triggeringEmotion = "sadness"

\* C14 as stated: sadness at or above 55 on the emotional path gives 'rain', or
\* 'light_rain' when the average arousal is below 30, whatever the arousal and
\* the valence, and the transition is recorded as emotionally driven
C14_SadnessRainOrLightRain ==
  /\ SadnessDrove =>
       /\ worldWeather.currentWeather = RainOrLight(SnapshotUsed.averageArousal)
       /\ weatherResult.newWeather = worldWeather.currentWeather
       /\ RecordedAsDriven
  /\ SadnessCalled =>
       fn.out = [weather |-> RainOrLight(fn.arousal), emotionallyDriven |-> TRUE]

\* C14 amended: the same, with 'storm' when the average arousal is above 70
C14_SadnessRainByArousal ==
  /\ SadnessDrove =>
       /\ worldWeather.currentWeather = RainByArousal(SnapshotUsed.averageArousal)
       /\ weatherResult.newWeather = worldWeather.currentWeather
       /\ LastOf(worldWeather.recentWeather).weather = worldWeather.currentWeather
       /\ RecordedAsDriven
  /\ SadnessCalled =>
       fn.out = [weather |-> RainByArousal(fn.arousal), emotionallyDriven |-> TRUE]

\* C14 witness: with both agents dominated by sadness at a mean of 55 or more, a
\* transition on the emotional path set the weather to rain
C14_SadnessBroughtRain ==
  /\ SadnessDrove
  /\ SnapshotUsed.emotionalDiversity = 0
  /\ SnapshotUsed.averageArousal >= 30 * Unit
  /\ SnapshotUsed.averageArousal <= 70 * Unit
  /\ worldWeather.currentWeather = "rain"
  /\ weatherResult.roll < worldWeather.emotionalInfluence

\* ---------------------------------------------------------- memory similarity
\* C15 as stated: calculateEmotionalSimilarity of a state of eight intensities in
\* [0,100] against itself is 1, the all-zero state included, and the similarity of
\* any two such states lies in [0,1]
C15_SelfSimilarityIsOne ==
  (fn.op = "calculateEmotionalSimilarity" /\ InRange(fn.state1) /\ InRange(fn.state2)) =>
    /\ fn.state1 = fn.state2 => fn.out = Unit
    /\ fn.out >= 0
    /\ fn.out <= Unit

\* ------------------------------------------------------------------ atmosphere
\* the number of agents whose dominant emotion is the most frequent one
MaxCountOf(db) ==
  LET holders(e) == Cardinality({a \in DOMAIN db : DominantOf(db[a].emotionalState.emotions) = e})
  IN holders(CHOOSE e \in Emotions : \A f \in Emotions : holders(f) <= holders(e))
Inserted == Len(worldAtmosphere') = Len(worldAtmosphere) + 1
\* the step is a calculateWorldAtmosphere call
AtmosphereStep ==
  fn'.op = "calculateWorldAtmosphere" /\ worldOps' = worldOps + 1 /\ fn'.seq = worldOps'
\* snapshot s was taken with a smaller share of the most frequent dominant emotion than t
SmallerShare(s, t) == s.maxCount * t.count < t.maxCount * s.count

\* C16: a snapshot taken over N >= 1 agents has emotionalDiversity
\* (N - maxCount) / N * 100, maxCount the number of agents whose highest emotion
\* is the most frequent one; it is 0 exactly when all agents share one dominant
\* emotion, larger in the snapshot with the smaller share, and within [0,100)
C16_DiversityFromShare ==
  /\ [][Inserted =>
          LET s == LastOf(worldAtmosphere')
              N == Cardinality(DOMAIN psych)
          IN /\ N >= 1
             /\ s.count = N
             /\ s.maxCount = MaxCountOf(psych)
             /\ s.emotionalDiversity = ((N - MaxCountOf(psych)) * 100 * Unit) \div N]_vars
  /\ [](\A i \in 1..Len(worldAtmosphere) :
          LET s == worldAtmosphere[i]
          IN /\ s.emotionalDiversity >= 0
             /\ s.emotionalDiversity < 100 * Unit
             /\ (s.emotionalDiversity = 0) = (s.maxCount = s.count)
             /\ \A j \in 1..Len(worldAtmosphere) :
                  SmallerShare(s, worldAtmosphere[j]) =>
                    s.emotionalDiversity > worldAtmosphere[j].emotionalDiversity)

\* C16 witness: a snapshot of two agents sharing one dominant emotion has diversity
\* 0, a later one of three agents, two of them sharing, has a third of 100
C16_SharedThenSpread ==
  \E i, j \in 1..Len(worldAtmosphere) :
    /\ i < j
    /\ worldAtmosphere[i].count = 2 /\ worldAtmosphere[i].maxCount = 2
    /\ worldAtmosphere[i].emotionalDiversity = 0
    /\ worldAtmosphere[j].count = 3 /\ worldAtmosphere[j].maxCount = 2
    /\ worldAtmosphere[j].emotionalDiversity = (100 * Unit) \div 3

\* C20: a calculateWorldAtmosphere on a world with a profile appends one snapshot
\* and returns its summary, one on a world without profiles inserts nothing and
\* returns null, and every step leaves the snapshots already inserted as they are
C20_SnapshotsAppendOnly ==
  [][/\ Len(worldAtmosphere') >= Len(worldAtmosphere)
     /\ SubSeq(worldAtmosphere', 1, Len(worldAtmosphere)) = worldAtmosphere
     /\ AtmosphereStep =>
          IF DOMAIN psych = {}
          THEN worldAtmosphere' = worldAtmosphere /\ fn'.returnedNull
          ELSE /\ Inserted
               /\ ~fn'.returnedNull
               /\ LastOf(worldAtmosphere').calculatedAt = clock
               /\ fn'.returned = AtmosphereReturned(LastOf(worldAtmosphere'))
     /\ ~AtmosphereStep =>
          worldAtmosphere' = worldAtmosphere]_vars

\* C20 witness: two calls, at different times and over one agent and then two,
\* have each inserted a snapshot, and the first snapshot is in its place
C20_TwoSnapshotsKept ==
  /\ Len(worldAtmosphere) = 2
  /\ fn.op = "calculateWorldAtmosphere" /\ ~fn.returnedNull
  /\ fn.returned = AtmosphereReturned(worldAtmosphere[2])
  /\ worldAtmosphere[1].count = 1
  /\ worldAtmosphere[2].count = 2
  /\ worldAtmosphere[1].calculatedAt < worldAtmosphere[2].calculatedAt

\* C19: the weather record's recentWeather holds between one and five entries and
\* its last entry is the current weather; every transition puts one entry for the
\* new weather, with its emotionally-driven flag, after the entries that were there
\* (without the oldest one when there were five), and no other step changes the list
C19_RecentWeatherLastFive ==
  /\ [](LET r == worldWeather.recentWeather
        IN /\ Len(r) >= 1 /\ Len(r) <= 5
           /\ r[Len(r)].weather = worldWeather.currentWeather)
  /\ [][LET r == worldWeather.recentWeather
            transition == Len(worldEvents') = Len(worldEvents) + 1
        IN IF transition
           THEN /\ weatherResult'.weatherChanged
                /\ worldWeather'.recentWeather =
                     Append(IF Len(r) = 5 THEN Tail(r) ELSE r,
                            [weather |-> worldWeather'.currentWeather,
                             timestamp |-> clock,
                             emotionalInfluence |-> weatherResult'.emotionallyDriven])
           ELSE worldWeather'.recentWeather = r]_vars

\* C19 witness: after six transitions, one of them emotionally driven, the list has
\* five entries and the entry written at initialization is no longer in it
C19_OldestEntryDropped ==
  LET r == worldWeather.recentWeather
  IN /\ Len(worldEvents) = 7
     /\ Len(r) = 5
     /\ r[1].timestamp > 0
     /\ \E i \in 1..5 : r[i].emotionalInfluence
     /\ \E i \in 1..5 : ~r[i].emotionalInfluence

\* the step is a call of the mutation op
MutationStep(op) == ops' = ops + 1 /\ fn'.op = op
\* the step is a call of the query op
QueryStep(op) == fn'.op = op /\ fn' # fn
TablesUnchanged == psych' = psych /\ events' = events /\ bonds' = bonds /\ chambers' = chambers

\* C17: a triggerEmotion for an agent without profile returns and changes no table;
\* a processContagion with a missing source or target writes nothing and logs no
\* event; getEmotionalState and findResonantChamber return null for an agent
\* without profile; a processContagion for a pair without bond row blends with the
\* strength computed from the default bond 10
C17_MissingIsAbsence ==
  [][/\ (MutationStep("triggerEmotion") /\ fn'.agent \notin DOMAIN psych) =>
          ~fn'.found /\ TablesUnchanged
     /\ (MutationStep("processContagion")
           /\ (fn'.source \notin DOMAIN psych \/ fn'.target \notin DOMAIN psych)) =>
          ~fn'.found /\ TablesUnchanged
     /\ (QueryStep("getEmotionalState") \/ QueryStep("findResonantChamber")) =>
          /\ TablesUnchanged
          /\ fn'.returnedNull = (fn'.agent \notin DOMAIN psych)
     /\ (MutationStep("processContagion")
           /\ fn'.source \in DOMAIN psych /\ fn'.target \in DOMAIN psych
           /\ \A b \in bonds : ~(b.agent1Id = fn'.source /\ b.agent2Id = fn'.target)) =>
          LET t == fn'.target
              k == calculateContagionStrength(Empathy(fn'.source), Empathy(t),
                                              DEFAULT_BOND_STRENGTH * Unit, fn'.proximity)
              decayed == decayEmotions(psych[t].emotionalState.emotions,
                                       clock - psych[t].emotionalState.lastUpdated,
                                       Regulation(t))
          IN /\ fn'.found /\ ~fn'.bondFound
             /\ fn'.returned = k
             /\ psych'[t].emotionalState.emotions =
                  applyEmotionalContagion(decayed,
                                          psych[fn'.source].emotionalState.emotions, k)]_vars

\* C17 witness: triggerEmotion(a3, disgust, 60), an intensity that is logged for
\* an agent with a profile, has returned as the third call on a world where a3 has
\* no profile, and no row and no event was added
C17_TriggerOnMissingAgent ==
  /\ fn.op = "triggerEmotion" /\ fn.agent = "a3" /\ ~fn.found
  /\ fn.intensity > SPIKE_LOG_THRESHOLD * Unit
  /\ "a3" \notin DOMAIN psych
  /\ ops = 3
  /\ events = fn.eventsBefore

\* the step is an updateEmotionsFromConversation call
ConversationStep ==
  ops' = ops + 1 /\ fn'.op = "updateEmotionsFromConversation" /\ fn'.seq = ops'
SideCalls(record, op) == {i \in 1..Len(record.calls) : record.calls[i].op = op}

\* the tables after the calls of a list that did not throw, made in the list's order
RECURSIVE Replayed(_, _, _, _)
Replayed(db, list, i, now) ==
  IF i > Len(list) THEN db
  ELSE LET c == list[i]
           Next(d) == Replayed(d, list, i + 1, now)
       IN Await(IF c.threw THEN db
                ELSE IF c.op = "triggerEmotion"
                THEN AfterTrigger(db, c.agent, c.emotion, c.intensity, now)
                ELSE AfterContagion(db, c.agent, c.other, FULL_PROXIMITY, now),
                Next)

\* C18: an updateEmotionsFromConversation returns normally whether or not its
\* social-effects and narrative calls throw, leaves the tables as its triggerEmotion,
\* updateNeeds and processContagion wrote them, and makes each side call once,
\* only for an ended conversation with another agent; an applyResonanceEffects in
\* which calls throw makes the same calls, in the same order, as one in which none
\* throws, patches the same chambers, and leaves the profiles as the calls that
\* did not throw wrote them
C18_SideCallsBestEffort ==
  [][/\ ConversationStep =>
          LET a == fn'.agent
              o == fn'.other
              c == EMOTION_CHANGES[fn'.eventType]
              triggered == AfterTrigger(psych, a, c.emotion, c.intensity * Unit, clock)
              stamped == StampedByNeeds(triggered, a, clock)
              spread == IF o = "none" THEN stamped
                        ELSE AfterContagion(stamped, a, o, FULL_PROXIMITY, clock)
              expected == IF fn'.eventType = "conversation_ended" /\ o # "none"
                          THEN 1 ELSE 0
          IN /\ ~fn'.threw
             /\ psych' = spread
             /\ needs' = AfterNeeds(needs, a, c.needChanges, clock)
             /\ fn'.calls[1] = [op |-> "triggerEmotion", threw |-> FALSE]
             /\ fn'.calls[2] = [op |-> "updateNeeds", threw |-> FALSE]
             /\ o # "none" => fn'.calls[3] = [op |-> "processContagion", threw |-> FALSE]
             /\ \A side \in {"social", "narrative"} :
                  /\ Cardinality(SideCalls(fn', side)) = expected
                  /\ sideEffects'[side] = sideEffects[side]
                       + Cardinality({i \in SideCalls(fn', side) : ~fn'.calls[i].threw})
     /\ ResonanceStep =>
          LET quiet == ResonanceFrom([psych |-> psych, events |-> events,
                                      chambers |-> chambers, patched |-> {},
                                      calls |-> <<>>], 1, clock, {})
              made == resonance'.calls
          IN /\ Len(made) = Len(quiet.calls)
             /\ \A i \in 1..Len(made) : [made[i] EXCEPT !.threw = FALSE] = quiet.calls[i]
             /\ chambers' = quiet.chambers
             /\ resonance'.patched = quiet.patched
             /\ psych' = Replayed(psych, made, 1, clock)]_vars

\* C18 witness: the last ended conversation had a side call that threw and one that
\* wrote its rows; in the last applyResonanceEffects the triggerEmotion for a1 and
\* the processContagion from a1 threw, and the triggerEmotion for a2 and the one for
\* a3, in the next chamber, wrote the profiles of a2 and a3
C18_ThrownThenOthersApplied ==
  /\ fn.op = "updateEmotionsFromConversation" /\ ~fn.threw
  /\ \E i \in 1..Len(fn.calls) : fn.calls[i].threw
  /\ sideEffects.social + sideEffects.narrative = 1
  /\ psych["a1"].emotionalState.emotions["trust"] >
       initializeAgentPsychology("a1", 0).emotionalState.emotions["trust"]
  /\ resonance.seq = 1
  /\ Len(resonance.calls) = 6
  /\ resonance.calls[1].threw /\ resonance.calls[1].agent = "a1"
  /\ resonance.calls[2].threw /\ resonance.calls[2].op = "processContagion"
  /\ ~resonance.calls[3].threw /\ resonance.calls[3].agent = "a2"
  /\ ~resonance.calls[4].threw /\ resonance.calls[4].agent = "a3"
  /\ resonance.calls[4].chamber # resonance.calls[1].chamber
  /\ psych["a2"] # initializeAgentPsychology("a2", 0)
  /\ psych["a3"] # initializeAgentPsychology("a3", 0)

\* ------------------------------------------------------------ rest state

\* C21 as stated: with no trigger since the row was written, the state the query
\* returns has moved every channel from its stored intensity toward the agent's
\* emotionalBaseline and never past it: a channel stored at or above its baseline is
\* returned at or above the baseline, a channel stored at or below its baseline is
\* returned no lower than it was stored
C21_ReturnsToBaseline ==
  lastRead.found =>
    \A e \in Emotions :
      LET stored == lastRead.row.emotionalState.emotions[e]
          rest == EmotionalBaseline(lastRead.agent)[e]
          returned == lastRead.state.emotions[e]
      IN /\ stored >= rest => returned >= rest
         /\ stored <= rest => returned >= stored

\* ------------------------------------------------------------- hold window
\* the step is a call of updateWorldWeather
WeatherStep == weatherResult'.seq # weatherResult.seq

\* C22: a call of updateWorldWeather made while the time since weatherStartTime is
\* less than weatherDuration leaves currentWeather, weatherStartTime, weatherDuration,
\* recentWeather and every other field but transitionProgress and lastUpdated as
\* they were, writes no worldEvents row and returns weatherChanged = false; a call
\* made at or after the end of the window transitions; so no transition happens
\* before the window has elapsed
C22_HoldsUntilWindowElapsed ==
  [][WeatherStep =>
       LET held == [worldWeather EXCEPT
                      !.transitionProgress = worldWeather'.transitionProgress,
                      !.lastUpdated = worldWeather'.lastUpdated]
       IN IF clock - worldWeather.weatherStartTime < worldWeather.weatherDuration
          THEN /\ worldWeather' = held
               /\ worldWeather'.lastUpdated = clock
               /\ worldEvents' = worldEvents
               /\ worldAtmosphere' = worldAtmosphere
               /\ ~weatherResult'.weatherChanged
          ELSE /\ weatherResult'.weatherChanged
               /\ Len(worldEvents') = Len(worldEvents) + 1
               /\ worldWeather'.weatherStartTime = clock]_vars

\* C22 witness: after one transition, a call made inside the new window held the
\* weather that the transition had set, moving only the progress
C22_HeldInsideWindow ==
  /\ weatherResult.path = "hold"
  /\ ~weatherResult.weatherChanged
  /\ worldWeather.transitionProgress > 0
  /\ worldWeather.lastUpdated = clock
  /\ worldWeather.weatherStartTime < clock
  /\ worldWeather.weatherStartTime > 0
  /\ Len(worldEvents) = 2
  /\ worldEvents[2].timestamp = worldWeather.weatherStartTime

\* ------------------------------------------------------------- tick by tick
WeatherChanges == {i \in 1..Len(worldEvents) : worldEvents[i].eventType = "weather_change"}

\* the current window ends within the time modelled; it has ended
EndsInTime == worldWeather.weatherStartTime + worldWeather.weatherDuration <= MaxTickClock
Expired == clock - worldWeather.weatherStartTime >= worldWeather.weatherDuration

\* C23: under ticks that keep being run while the clock advances, every hold window
\* that ends within the time modelled is followed by a transition that starts a new
\* window; a transition sets weatherStartTime to the time of the call and
\* transitionProgress to 0; every window lasts between 10 and 30 minutes, the first
\* one 15; and transitionProgress is at least 0 and less than 1
C23_WindowsExpireAndTransition ==
  /\ [](/\ worldWeather.weatherDuration >= 10
        /\ worldWeather.weatherDuration <= 30
        /\ (WeatherChanges = {} => worldWeather.weatherDuration = 15)
        /\ worldWeather.transitionProgress >= 0
        /\ worldWeather.transitionProgress < Unit)
  /\ [][(WeatherStep /\ weatherResult'.weatherChanged) =>
          /\ worldWeather'.weatherStartTime = clock
          /\ worldWeather'.transitionProgress = 0
          /\ clock - worldWeather.weatherStartTime >= worldWeather.weatherDuration]_vars
  /\ EndsInTime ~> Expired
  /\ Expired ~> (/\ weatherResult.weatherChanged
                 /\ worldWeather.weatherStartTime = clock
                 /\ worldWeather.transitionProgress = 0)

\* C23 witness: the first window and a second one have both ended in a transition,
\* and a tick inside the third window has moved its progress
C23_ThirdWindowUnderWay ==
  /\ Cardinality(WeatherChanges) = 2
  /\ worldWeather.weatherStartTime = 25
  /\ worldWeather.weatherDuration = 29
  /\ worldWeather.transitionProgress > 0
  /\ weatherResult.path = "hold"

\* the step is a run of worldTick
TickStep == fn'.op = "worldTick" /\ worldOps' = worldOps + 1

\* the triggerEmotion call that pushes the weather w into agent a
WeatherPush(a, w) ==
  [agent |-> a, emotion |-> WEATHER_EMOTIONS[w.currentWeather],
   intensity |-> (10 * Unit * w.weatherIntensity) \div 50]

WorldAgents == {AgentOrder[i] : i \in 1..Len(AgentOrder)}
PushedTo(record, a, w) == {i \in 1..Len(record.triggers) : record.triggers[i] = WeatherPush(a, w)}

C25_TickStepsInOrder ==
  [][TickStep =>
       LET taken == AtmosphereOf(psych, PsychRows, worldAtmosphere, clock)
       IN /\ worldAtmosphere' = Append(worldAtmosphere, taken)
          /\ weatherResult'.weatherChanged =>
               /\ weatherResult'.snapshot = Len(worldAtmosphere')
               /\ weatherResult'.path = "emotional" =>
                    weatherResult'.newWeather =
                      determineEmotionalWeather(taken.dominantEmotion, taken.intensity,
                                                taken.averageValence, taken.averageArousal).weather
          /\ fn'.triggers # <<>> =>
               \A a \in WorldAgents : PushedTo(fn', a, worldWeather') # {}
          /\ (fn'.weatherChanged /\ ~fn'.timeChanged) =>
               \A i \in 1..Len(fn'.triggers) :
                 fn'.triggers[i] = WeatherPush(fn'.triggers[i].agent, worldWeather')
          /\ psych' = TriggersApplied([psych |-> psych, events |-> events],
                                      fn'.triggers, 1, clock).psych]_vars

\* C25 witness: the tick at 15 minutes took the first snapshot from the profiles as
\* constructed, chose the clear sky by it and pushed joy; the tick at 20 minutes took
\* the second snapshot, in which the mean valence is no longer that of the
\* constructed profiles, and pushed again
C25_PushSeenByNextSnapshot ==
  /\ Len(worldAtmosphere) = 2
  /\ worldAtmosphere[1].calculatedAt = 15
  /\ worldAtmosphere[1] = AtmosphereOf(batch.base, PsychRows, <<>>, 15)
  /\ worldEvents[2].eventType = "weather_change" /\ worldEvents[2].emotionallyDriven
  /\ worldWeather.currentWeather = "clear"
  /\ worldAtmosphere[2].calculatedAt = 20
  /\ worldAtmosphere[2].averageValence # worldAtmosphere[1].averageValence
  /\ fn.op = "worldTick" /\ fn.triggers # <<>>
  /\ ~fn.weatherChanged

\* ------------------------------------------------------- what is aggregated
\* every profile with the state getEmotionalState returns for it now
CurrentStates ==
  [a \in DOMAIN psych |->
     [psych[a] EXCEPT !.emotionalState = EmotionalStateOf(psych[a], a, clock)]]

\* C26 as stated: the snapshot inserted by calculateWorldAtmosphere is the
\* aggregation of the agents' current, decayed states: of what getEmotionalState
\* returns for each agent at the time of the aggregation
C26_SnapshotOfDecayedStates ==
  [][Len(worldAtmosphere') = Len(worldAtmosphere) + 1 =>
       LastOf(worldAtmosphere') =
         AtmosphereOf(CurrentStates, PsychRows, worldAtmosphere, clock)]_vars

\* ------------------------------------------------------ the two paths
Successors(weather) == {NATURAL_TRANSITIONS[weather][i] : i \in 1..Len(NATURAL_TRANSITIONS[weather])}

\* C27: a transition takes the emotional path exactly when the worldAtmosphere table
\* holds a snapshot and the draw is below emotionalInfluence; every other transition
\* (a draw at or above emotionalInfluence, or no snapshot) sets a weather listed for
\* the old weather in the transition table and is recorded, in the result, the
\* worldEvents row and the recentWeather entry, as not emotionally driven
C27_NaturalUnlessSnapshotAndDraw ==
  [][(WeatherStep /\ weatherResult'.weatherChanged) =>
       LET emotional == /\ worldAtmosphere # <<>>
                        /\ weatherResult'.roll < worldWeather.emotionalInfluence
       IN /\ weatherResult'.path = (IF emotional THEN "emotional" ELSE "natural")
          /\ weatherResult'.emotionallyDriven => emotional
          /\ ~emotional =>
               /\ worldWeather'.currentWeather \in Successors(worldWeather.currentWeather)
               /\ weatherResult'.newWeather = worldWeather'.currentWeather
               /\ ~weatherResult'.emotionallyDriven
               /\ weatherResult'.triggeringEmotion = "undefined"
               /\ ~LastOf(worldEvents').emotionallyDriven
               /\ ~LastOf(worldWeather'.recentWeather).emotionalInfluence]_vars

\* C27 witness: a transition whose draw was below emotionalInfluence found no
\* snapshot and went the natural way, from partly_cloudy to windy
C27_NaturalForLackOfSnapshot ==
  /\ weatherResult.weatherChanged
  /\ weatherResult.roll < worldWeather.emotionalInfluence
  /\ weatherResult.snapshot = 0
  /\ weatherResult.path = "natural"
  /\ worldWeather.currentWeather = "windy"
  /\ Len(worldEvents) = 2

\* -------------------------------------------------------------------- trend
\* C28: the first snapshot of the world has trend 'stable'; every later one has
\* 'rising' when its averageValence exceeds that of the snapshot inserted just before
\* it by more than 10, 'falling' when it is lower by more than 10, and 'stable'
\* otherwise, a difference of exactly 10 either way included
C28_TrendFromPreviousSnapshot ==
  \A i \in 1..Len(worldAtmosphere) :
    LET s == worldAtmosphere[i]
        diff == s.averageValence - worldAtmosphere[i - 1].averageValence
    IN IF i = 1 THEN s.trend = "stable"
       ELSE /\ (s.trend = "rising") = (diff > 10 * Unit)
            /\ (s.trend = "falling") = (diff < -10 * Unit)
            /\ (s.trend = "stable") = (diff >= -10 * Unit /\ diff <= 10 * Unit)

\* C28 witness: a first snapshot, stable; a second one exactly 10 lower, stable; a
\* third one more than 10 higher, rising
C28_StableAtTenThenRising ==
  /\ Len(worldAtmosphere) = 3
  /\ worldAtmosphere[1].trend = "stable"
  /\ worldAtmosphere[2].averageValence = worldAtmosphere[1].averageValence - 10 * Unit
  /\ worldAtmosphere[2].trend = "stable"
  /\ worldAtmosphere[3].trend = "rising"
  /\ worldAtmosphere[3].averageValence > worldAtmosphere[2].averageValence + 10 * Unit

\* ------------------------------------------------------------ resonant memories
\* a step that is a call of findResonantMemories
FindStep == fn' # fn /\ fn'.op = "findResonantMemories"

\* the score of a row of the table for an agent in a state at a time
ScoreIn(m, agent, state, now) ==
  resonanceScore(calculateEmotionalSimilarity(state,
                    memoryEmotionalState(m, EmotionalBaseline(agent))), m, now)

\* the rows of the agent that resonate in the state
Qualifying(memories, agent, state, now) ==
  {i \in 1..Len(memories) :
     /\ memories[i].agentId = agent
     /\ ScoreIn(memories[i], agent, state, now) > memories[i].resonanceThreshold}

\* C29 as stated: findResonantMemories returns only memories of the given agent
\* whose resonance score is strictly greater than their own resonanceThreshold,
\* which is 100 - intensity; the result is ordered by non-increasing score; it
\* holds at most the number of memories the caller specified, for every
\* specified limit, 0 included; and when more memories qualify than the limit,
\* no memory left out scores higher than a returned one
C29_AtMostLimitAboveThreshold ==
  [][FindStep =>
       LET out == fn'.out
           q == Qualifying(emotionalMemories, fn'.agent, fn'.currentEmotionalState, fn'.now)
       IN /\ \A k \in 1..Len(out) :
               /\ \E i \in q : emotionalMemories[i] = out[k].emotionalMemory
               /\ out[k].resonanceScore = ScoreIn(out[k].emotionalMemory, fn'.agent,
                                                  fn'.currentEmotionalState, fn'.now)
               /\ out[k].emotionalMemory.resonanceThreshold =
                    100 * Unit - out[k].emotionalMemory.intensity
          /\ \A k \in 1..(Len(out) - 1) : out[k].resonanceScore >= out[k + 1].resonanceScore
          /\ fn'.limit # <<>> => Len(out) <= fn'.limit[1]
          /\ \A i \in q :
               \/ \E k \in 1..Len(out) : out[k].emotionalMemory = emotionalMemories[i]
               \/ \A k \in 1..Len(out) :
                    ScoreIn(emotionalMemories[i], fn'.agent, fn'.currentEmotionalState,
                            fn'.now) <= out[k].resonanceScore]_vars

\* a step that changes a row of the table, or adds one
MemoriesChange == emotionalMemories' # emotionalMemories

\* the step adds one row, never triggered, and leaves the others alone
RowAdded ==
  /\ Len(emotionalMemories') = Len(emotionalMemories) + 1
  /\ SubSeq(emotionalMemories', 1, Len(emotionalMemories)) = emotionalMemories
  /\ emotionalMemories'[Len(emotionalMemories')].timesTriggered = 0

\* the step is a trigger of row i: one more trigger, lastTriggered now, nothing
\* else of the row and no other row changed, one emotionalEvents row logged
RowTriggered(i) ==
  /\ emotionalMemories' =
       [emotionalMemories EXCEPT
          ![i] = [emotionalMemories[i] EXCEPT
                    !.timesTriggered = emotionalMemories[i].timesTriggered + 1,
                    !.lastTriggered = <<clock>>]]
  /\ events'.emotional = events.emotional + 1

\* the score of row m with a given number of triggers
ScoreAfter(m, times, agent, state, now) ==
  ScoreIn([m EXCEPT !.timesTriggered = times], agent, state, now)

\* the scores of row m of its agent in a state, by number of triggers
ScoresByTriggers(m, state, now) ==
  Await(calculateEmotionalSimilarity(state,
           memoryEmotionalState(m, EmotionalBaseline(m.agentId))),
        LAMBDA similarity :
          [t \in 0..MaxTimesTriggered |->
             resonanceScore(similarity, [m EXCEPT !.timesTriggered = t], now)])

\* C30: a row of emotionalMemories, once inserted, is changed only by
\* triggerMemoryResonance, which raises timesTriggered by exactly 1 and sets
\* lastTriggered and leaves emotionType, intensity, valence, resonanceThreshold
\* and created as they were, so timesTriggered never decreases; for a fixed
\* state and time the score of a row of the table does not fall as
\* timesTriggered grows and is constant from 10 triggers on; and a row that
\* resonates in a state still resonates in it after a trigger
C30_OnlyTriggersStrengthenMemories ==
  [][MemoriesChange =>
       /\ \/ RowAdded
          \/ /\ \E i \in 1..Len(emotionalMemories) : RowTriggered(i)
             /\ \A a \in {"a1", "a2"} : \A st \in MemoryStatesIn :
                  Qualifying(emotionalMemories, a, st, clock)
                    \subseteq Qualifying(emotionalMemories', a, st, clock)
       /\ \A i \in 1..Len(emotionalMemories') :
            emotionalMemories'[i].timesTriggered >=
              (IF i <= Len(emotionalMemories) THEN emotionalMemories[i].timesTriggered ELSE 0)
       /\ \A i \in 1..Len(emotionalMemories') : \A st \in MemoryStatesIn :
            \A score \in {ScoresByTriggers(emotionalMemories'[i], st, clock)} :
              \A t \in 0..(MaxTimesTriggered - 1) :
                /\ score[t] <= score[t + 1]
                /\ t >= 10 => score[t] = score[t + 1]]_vars

\* a memory triggered twice, its other fields as inserted, is returned by a
\* later findResonantMemories with a score above the one it was inserted with
C30_TriggeredTwiceStillResonates ==
  /\ fn.op = "findResonantMemories"
  /\ \E k \in 1..Len(fn.out) : \E i \in 1..Len(emotionalMemories) :
       /\ fn.out[k].emotionalMemory = emotionalMemories[i]
       /\ emotionalMemories[i] =
            [tagMemoryWithEmotion("a1", 1, "joy", 60 * Unit, 50, 0) EXCEPT
               !.timesTriggered = 2, !.lastTriggered = <<clock>>]
       /\ fn.out[k].resonanceScore >
            ScoreAfter(emotionalMemories[i], 0, fn.agent, fn.currentEmotionalState, fn.now)

\* ------------------------------------------------------------ bonds
\* the bonds of an unordered pair of agents
PairBonds(table, agent1, agent2) ==
  {b \in table : {b.agent1Id, b.agent2Id} = {agent1, agent2}}

\* a step that is a call of updateEmotionalBond
UpdateBondStep == fn'.op = "updateEmotionalBond" /\ (fn' # fn \/ bonds' # bonds)

\* C31: after any sequence of initializeEmotionalBond and updateEmotionalBond
\* calls, with the two agents in either order, there is at most one bond per
\* unordered pair of agents and affection, trust, respect and rivalry are within
\* 0..100; no bond disappears and no totalInteractions decreases; an
\* updateEmotionalBond for a pair without a bond inserts the default bond, and
\* one for a pair with a bond raises its totalInteractions by exactly 1
C31_BondsLazyAndCounted ==
  [][/\ \A b \in bonds' :
          /\ PairBonds(bonds', b.agent1Id, b.agent2Id) = {b}
          /\ \A f \in {b.affection, b.trust, b.respect, b.rivalry} : f \in 0..100
     /\ \A b \in bonds : \E c \in bonds' :
          /\ c.agent1Id = b.agent1Id /\ c.agent2Id = b.agent2Id
          /\ c.totalInteractions >= b.totalInteractions
     /\ UpdateBondStep =>
          LET before == PairBonds(bonds, fn'.agent1, fn'.agent2)
              after == PairBonds(bonds', fn'.agent1, fn'.agent2)
          IN /\ bonds' \ after = bonds \ before
             /\ IF before = {}
                THEN after = {initializeEmotionalBond(fn'.agent1, fn'.agent2)}
                ELSE \A b \in before : \A c \in after :
                       c.totalInteractions = b.totalInteractions + 1]_vars

\* the bond that the pair (a2, a1) created has been updated twice by calls that
\* name the pair as (a1, a2), and two of its fields have reached their ends
C31_ReversedPairUpdatedTwice ==
  /\ fn.op = "updateEmotionalBond" /\ fn.agent1 = "a1" /\ fn.agent2 = "a2"
  /\ PairBonds(bonds, "a1", "a2") =
       {[agent1Id |-> "a2", agent2Id |-> "a1", affection |-> 100, trust |-> 0,
         respect |-> 25, rivalry |-> 100, totalInteractions |-> 2]}
  /\ PairBonds(bonds, "a1", "a3") # {}

\* ------------------------------------------------------------ chamber effects
\* the triggerEmotion calls of the last applyResonanceEffects for chamber k
TriggerCallsFor(record, k) ==
  {j \in 1..Len(record.calls) :
     record.calls[j].chamber = k /\ record.calls[j].op = "triggerEmotion"}

\* the occupants that have a profile
WithProfile(occupants) == SelectSeq(occupants, LAMBDA a : a \in DOMAIN psych)

\* what the occupants of a chamber that have a profile feel when the handler
\* reads them
OccupantStates(occupants, now) ==
  [i \in 1..Len(WithProfile(occupants)) |->
     EmotionalStateOf(psych[WithProfile(occupants)[i]], WithProfile(occupants)[i],
                      now).emotions]

\* C32 as stated: for every active chamber, of whatever type, one
\* applyResonanceEffects stores as resonanceIntensity the share of the occupants
\* dominated by the collective emotion times the mean of their values of it, and
\* calls triggerEmotion exactly once for every occupant, with the collective
\* emotion and the intensity (emotionAmplification - 1) * resonanceIntensity * 0.3
C32_EveryOccupantAmplified ==
  [][ResonanceStep =>
       \A k \in ChamberIds :
         (chambers[k].activeResonance /\ WithProfile(chambers[k].currentOccupants) # <<>>) =>
           LET occ == chambers[k].currentOccupants
               d == DominantCollective(OccupantStates(occ, clock))
               amount == ((CHAMBER_TEMPLATES[k].emotionAmplification - Unit)
                            * chambers'[k].resonanceIntensity * 3) \div (10 * Unit)
           IN /\ chambers'[k].dominantEmotion = d.emotion
              /\ chambers'[k].resonanceIntensity = (d.count * d.intensity) \div Len(occ)
              /\ Cardinality(TriggerCallsFor(resonance', k)) = Len(occ)
              /\ \A i \in 1..Len(occ) :
                   \E j \in TriggerCallsFor(resonance', k) :
                     /\ resonance'.calls[j].agent = occ[i]
                     /\ resonance'.calls[j].emotion = d.emotion
                     /\ Abs(resonance'.calls[j].intensity - amount) <= 1]_vars

\* the contagionMultiplier of the row of chamber k
ContagionMultiplierOf(k) == CHAMBER_TYPES[CHAMBER_TEMPLATES[k].chamberType].contagionMultiplier

\* the processContagion calls of a run for chamber k, in the order made
ContagionCallsFor(record, k) ==
  SelectSeq(record.calls, LAMBDA c : c.chamber = k /\ c.op = "processContagion")

\* the tables after the calls of a list that did not throw, each processContagion
\* run at the full proximity times the contagionMultiplier of its chamber
RECURSIVE ReplayedScaled(_, _, _, _)
ReplayedScaled(db, list, i, now) ==
  IF i > Len(list) THEN db
  ELSE LET c == list[i]
           Next(d) == ReplayedScaled(d, list, i + 1, now)
       IN Await(IF c.threw THEN db
                ELSE IF c.op = "triggerEmotion"
                THEN AfterTrigger(db, c.agent, c.emotion, c.intensity, now)
                ELSE AfterContagion(db, c.agent, c.other,
                                    MulUnit(FULL_PROXIMITY, ContagionMultiplierOf(c.chamber)),
                                    now),
                Next)

\* C33 as stated: for every active chamber one applyResonanceEffects calls
\* processContagion exactly once for each adjacent pair of the occupant list,
\* occupant i as source and occupant i + 1 as target, after the triggerEmotion of
\* occupant i and before that of occupant i + 1; and the strength applied in the
\* call is scaled by the contagionMultiplier of the chamber, so that the profiles
\* are left as calls run at that strength leave them
C33_ContagionScaledByChamber ==
  [][ResonanceStep =>
       /\ \A k \in ChamberIds :
            (chambers[k].activeResonance /\ WithProfile(chambers[k].currentOccupants) # <<>>) =>
              LET occ == chambers[k].currentOccupants
                  made == ContagionCallsFor(resonance', k)
              IN /\ Len(made) = Len(occ) - 1
                 /\ \A i \in 1..Len(made) : made[i].agent = occ[i] /\ made[i].other = occ[i + 1]
                 /\ \A j \in CallsFor(k)' : \A t \in TriggerCallsFor(resonance', k) :
                      resonance'.calls[j].op = "processContagion" =>
                        /\ resonance'.calls[t].agent = resonance'.calls[j].agent => t < j
                        /\ resonance'.calls[t].agent = resonance'.calls[j].other => j < t
       /\ psych' = ReplayedScaled(psych, resonance'.calls, 1, clock)]_vars

\* ---- C34 ----
SeekStep == fn.op # "findResonantChamber" /\ fn'.op = "findResonantChamber"

\* the five terms of the score, summed
SeekScore(row, template, state, dominant) ==
  (IF template.resonanceEmotion = dominant THEN 50 ELSE 0)
  + (IF \/ state.arousal > 70 * Unit /\ template.chamberType = "amplifier"
        \/ state.arousal < 30 * Unit /\ template.chamberType = "stabilizer"
     THEN 20 ELSE 0)
  + (IF Abs(state.valence) < 20 * Unit /\ template.chamberType = "transformer" THEN 15 ELSE 0)
  + (IF Len(row.currentOccupants) >= CHAMBER_CAPACITY THEN -30 ELSE 0)
  + (IF row.activeResonance /\ row.dominantEmotion = dominant THEN 25 ELSE 0)

SeekScores(rows, agent) ==
  LET state == EmotionalStateOf(psych[agent], agent, clock)
  IN [k \in DOMAIN rows |->
        SeekScore(rows[k], CHAMBER_TEMPLATES[k], state, DominantOf(state.emotions))]

FirstOfTheBest(score, k) ==
  /\ k \in DOMAIN score
  /\ \A j \in DOMAIN score : score[j] <= score[k]
  /\ \A j \in 1..(k - 1) : score[j] < score[k]

\* C34: findResonantChamber returns null exactly when the agent has no profile
\* or the world has no chambers; otherwise it returns a chamber whose score,
\* the sum of the five terms, is the highest of all chambers, the first such
\* chamber in storage order
C34_ReturnsFirstBestChamber ==
  [][SeekStep =>
       \A rows \in {ChamberTable(fn'.table)} :
         /\ fn'.returnedNull <=> (fn'.agent \notin DOMAIN psych \/ rows = <<>>)
         /\ fn'.returnedNull <=> fn'.returned = 0
         /\ ~fn'.returnedNull =>
              \A score \in {SeekScores(rows, fn'.agent)} : FirstOfTheBest(score, fn'.returned)]_vars

\* a2, surprised, asks while the first chamber is full: the three amplifiers
\* would tie, the full one drops out and the third chamber is returned
C34_FullChamberPassedOver ==
  /\ fn.op = "findResonantChamber"
  /\ fn.agent = "a2"
  /\ fn.table = 1
  /\ fn.returned = 3
  /\ DominantOf(EmotionalStateOf(psych["a2"], "a2", clock).emotions) = "surprise"

\* ---- C35 ----
\* the score of one prototype, term by term over the eight emotions
PrototypeScore(em, valence, arousal, cat) ==
  LET missing == [e \in Emotions |->
                    IF \E r \in cat.req : r[1] = e /\ em[e] < r[2] * Unit
                    THEN (CHOOSE r \in cat.req : r[1] = e)[2] * Unit - em[e] ELSE 0]
      raw == 100 * Unit - SumOver(missing)
             - (IF valence \in (cat.vr[1] * Unit)..(cat.vr[2] * Unit) THEN 0 ELSE 30 * Unit)
             - (IF arousal \in (cat.ar[1] * Unit)..(cat.ar[2] * Unit) THEN 0 ELSE 20 * Unit)
  IN IF raw < 0 THEN 0 ELSE raw

MoodCalled == fn.op = "calculateMood"

\* C35: calculateMood returns the prototype of the highest score, the score
\* being 100 less the shortfall of each required emotion, less 30 for a valence
\* outside the window, less 20 for an arousal outside the window, never below
\* 0; of several prototypes with the highest score the first declared is returned
C35_HighestScoreFirstDeclared ==
  MoodCalled =>
    \A score \in {[i \in DOMAIN MOOD_CATEGORIES |->
                     PrototypeScore(fn.em, fn.valence, fn.arousal, MOOD_CATEGORIES[i])]} :
      \E i \in DOMAIN MOOD_CATEGORIES :
        /\ fn.out.mood = MOOD_CATEGORIES[i].name
        /\ fn.out.intensity = score[i]
        /\ \A j \in DOMAIN MOOD_CATEGORIES : score[j] <= score[i]
        /\ \A j \in 1..(i - 1) : score[j] < score[i]

\* euphoric and excited both score 100, and euphoric, declared first, is returned
C35_EuphoricBeforeExcited ==
  /\ MoodCalled
  /\ fn.out.mood = "euphoric"
  /\ fn.out.intensity = 100 * Unit
  /\ PrototypeScore(fn.em, fn.valence, fn.arousal, MOOD_CATEGORIES[3]) = 100 * Unit

\* ---- C36 ----
MoodIntensityInRange(state) ==
  state.moodIntensity >= 50 * Unit /\ state.moodIntensity <= 100 * Unit

\* C36: the moodIntensity of every stored profile, so after every triggerEmotion
\* and processContagion, of every state getEmotionalState returns, and of every
\* result of calculateMood, whatever its arguments, lies between 50 and 100
C36_MoodIntensityAtLeastFifty ==
  /\ \A a \in DOMAIN psych : MoodIntensityInRange(psych[a].emotionalState)
  /\ fn.op = "getEmotionalState" /\ ~fn.returnedNull => MoodIntensityInRange(fn.returned)
  /\ fn.op = "triggerEmotion" /\ fn.found => MoodIntensityInRange(fn.returned)
  /\ fn.op = "calculateMood" =>
       fn.out.intensity >= 50 * Unit /\ fn.out.intensity <= 100 * Unit

\* a trigger after which no prototype that requires an emotion scores above 50,
\* and calm, inside its valence window and outside its arousal window, wins at 80
C36_CalmWinsWhereNoneFits ==
  /\ fn.op = "triggerEmotion" /\ fn.found
  /\ psych[fn.agent].emotionalState = fn.returned
  /\ fn.returned.currentMood = "calm"
  /\ fn.returned.moodIntensity = 80 * Unit
  /\ \A i \in 1..8 :
       MoodScore(fn.returned.emotions, fn.returned.valence, fn.returned.arousal,
                 MOOD_CATEGORIES[i]) <= 50 * Unit

\* ---- C37 ----
WeatherType ==
  {"clear", "partly_cloudy", "cloudy", "overcast", "light_rain", "rain", "storm", "fog",
   "snow", "windy"}
EmotionalWeathers == {"clear", "rain", "light_rain", "storm", "partly_cloudy", "windy", "fog"}

\* C37: from the initial 'partly_cloudy' the weather stays one of the ten
\* declared values and is never 'snow', after natural and emotional transitions
\* alike; a transition recorded as emotionally driven, in the history and in the
\* result of the call, yields clear, rain, light_rain, storm, partly_cloudy,
\* windy or fog only, as does every direct call of determineEmotionalWeather
C37_NeverSnowAndSevenEmotionalWeathers ==
  /\ worldWeather.currentWeather \in WeatherType \ {"snow"}
  /\ \A i \in DOMAIN worldWeather.recentWeather :
       /\ worldWeather.recentWeather[i].weather \in WeatherType \ {"snow"}
       /\ worldWeather.recentWeather[i].emotionalInfluence =>
            worldWeather.recentWeather[i].weather \in EmotionalWeathers
  /\ weatherResult.emotionallyDriven => weatherResult.newWeather \in EmotionalWeathers
  /\ fn.op = "determineEmotionalWeather" /\ fn.out.emotionallyDriven =>
       fn.out.weather \in EmotionalWeathers

\* a storm the natural progression has made of a rain that the collective
\* sadness brought
C37_StormAfterEmotionalRain ==
  /\ worldWeather.currentWeather = "storm"
  /\ weatherResult.weatherChanged /\ ~weatherResult.emotionallyDriven
  /\ \E i \in DOMAIN worldWeather.recentWeather :
       /\ worldWeather.recentWeather[i].emotionalInfluence
       /\ worldWeather.recentWeather[i].weather \in {"rain", "light_rain"}

\* ---- C38 ----
\* C38: for a pair with one stored bond, processContagion uses (affection +
\* trust) / 2 of that bond whichever of the two agents is the source
C38_BondStrengthEitherDirection ==
  fn.op = "processContagion" /\ fn.found =>
    \A b \in PairBonds(bonds, fn.source, fn.target) :
      fn.returned = ContagionStrength(fn.source, fn.target,
                                      ((b.affection + b.trust) * Unit) \div 2, fn.proximity)

\* ---- C39 ----
\* a step that is a run of updateChamberOccupancy
OccupancyUpdated == chamberOps' = chamberOps + 1 /\ resonance' = resonance

\* C39: updateChamberOccupancy leaves the dominantEmotion and the
\* resonanceIntensity of every chamber as they are, and sets activeResonance to
\* whether two or more occupants were found; findResonantChamber adds the 25 to
\* the score of a chamber only while its activeResonance is true, whatever
\* dominantEmotion the row still carries
C39_LeftoverResonanceEarnsNoBonus ==
  [][/\ OccupancyUpdated =>
          \A k \in ChamberIds :
            /\ chambers'[k].dominantEmotion = chambers[k].dominantEmotion
            /\ chambers'[k].resonanceIntensity = chambers[k].resonanceIntensity
            /\ chambers'[k].activeResonance <=> Len(chambers'[k].currentOccupants) >= 2
            /\ chambers'[k].lastUpdated = clock
     /\ SeekStep /\ fn'.agent \in DOMAIN psych =>
          \A rows \in {ChamberTable(fn'.table)} :
            \A state \in {EmotionalStateOf(psych[fn'.agent], fn'.agent, clock)} :
              \A k \in DOMAIN rows :
                LET bonus == fn'.scores[k]
                               - SeekScore([rows[k] EXCEPT !.activeResonance = FALSE],
                                           CHAMBER_TEMPLATES[k], state,
                                           DominantOf(state.emotions))
                IN /\ bonus \in {0, 25}
                   /\ bonus = 25 => rows[k].activeResonance]_vars

\* an agent asks while an emptied chamber still carries, with a resonanceIntensity
\* above 0, the agent's own dominant emotion as its dominantEmotion
C39_InactiveChamberStillCarriesResonance ==
  /\ fn.op = "findResonantChamber" /\ fn.table = 0 /\ fn.agent \in DOMAIN psych
  /\ \E k \in ChamberIds :
       /\ ~chambers[k].activeResonance
       /\ Len(chambers[k].currentOccupants) < 2
       /\ chambers[k].resonanceIntensity > 0
       /\ chambers[k].dominantEmotion =
            DominantOf(EmotionalStateOf(psych[fn.agent], fn.agent, clock).emotions)

\* ---- C40 ----
\* C40: processContagion blends the target's decayed intensities toward the
\* source's decayed intensities, those getEmotionalState returns for the source
\* at the time of the call
C40_SourceDecayedBeforeBlending ==
  fn.op = "processContagion" /\ fn.found =>
    psych[fn.target].emotionalState.emotions =
      applyEmotionalContagion(
        EmotionalStateOf(fn.targetRow, fn.target, fn.now).emotions,
        EmotionalStateOf(fn.sourceRow, fn.source, fn.now).emotions,
        fn.returned)

====
